---------------------------- MODULE Spec2Model ----------------------------
(***************************************************************************)
(* A model of mcp_server_qdrant/qdrant.py: the in-memory BM25Indexer and   *)
(* the QdrantConnector operations built on it.                             *)
(*                                                                         *)
(* Spec      the BM25Indexer driven directly: add_or_update, transform and *)
(*           remove with any document id and any text.                     *)
(* ConnSpec  the QdrantConnector: store, update, delete, search and        *)
(*           find_hybrid requests, issued one after another; each request  *)
(*           advances from one awaited call to the next, and every awaited *)
(*           call may raise.                                               *)
(* ConcSpec  the QdrantConnector with two tasks on one event loop: store   *)
(*           and update requests interleaved with find_hybrid requests at  *)
(*           every await.                                                  *)
(* WriteSpec the QdrantConnector with two writing tasks on one event loop: *)
(*           store and update requests of one task interleaved with store  *)
(*           requests of the other at every await.                         *)
(* DeleteRaceSpec  store and update requests of one task interleaved with  *)
(*           delete requests of the other.                                 *)
(* UpdateRaceSpec  store and update requests of one task interleaved with  *)
(*           update requests of the other.                                 *)
(***************************************************************************)
EXTENDS Integers, Sequences, FiniteSets, TLC

VARIABLES
    bm25,     \* the BM25Indexer (the connector's self._bm25)
    ret,      \* the last direct call on the indexer and what it returned
    conn,     \* the QdrantConnector's own fields
    qdrant,   \* the vector store: collection name -> point id -> point
    tasks     \* the connector requests in flight, one record per task

vars == <<bm25, ret, conn, qdrant, tasks>>

(***************************************************************************)
(* Bounds and input sets.                                                  *)
(***************************************************************************)

\* BM25Indexer(max_vocab=...): the vocabulary cap the index is built with.
max_vocab == 2

\* Document ids handed to the indexer.
DocIds == {"1", "2"}

\* A text is a sequence of characters.
Texts ==
    { <<>>,
      <<"a">>,
      <<"A", " ", "b">>,
      <<"b", "-", "B", " ", "c">>,
      <<"a", "b">>,
      <<"-", "c">>,
      <<"a", " ", "b", " ", "b">> }

(***************************************************************************)
(* BM25Indexer._tokenize: re.findall(r"\w+", text.lower())                 *)
(***************************************************************************)

\* str.lower() on one character.
Lower(c) ==
    CASE c = "A" -> "a"
      [] c = "B" -> "b"
      [] c = "C" -> "c"
      [] c = "F" -> "f"
      [] c = "R" -> "r"
      [] OTHER -> c

\* A character matched by \w.
IsWordChar(c) == c \in {"a", "b", "c", "A", "B", "C", "_", "0", "1"}

RECURSIVE FindAll(_, _, _)
\* Scan the characters left to right; cur is the run of word characters
\* collected so far, out the tokens already complete.
FindAll(chars, cur, out) ==
    IF chars = <<>>
    THEN IF cur = "" THEN out ELSE Append(out, cur)
    ELSE IF IsWordChar(Head(chars))
         THEN FindAll(Tail(chars), cur \o Head(chars), out)
         ELSE FindAll(Tail(chars), "",
                      IF cur = "" THEN out ELSE Append(out, cur))

_tokenize(text) ==
    FindAll([i \in 1..Len(text) |-> Lower(text[i])], "", <<>>)

(***************************************************************************)
(* collections.Counter(tokens): a map from each distinct token to its      *)
(* count; its keys iterate in first-occurrence order.                      *)
(***************************************************************************)

RECURSIVE CountOf(_, _)
CountOf(tokens, term) ==
    IF tokens = <<>> THEN 0
    ELSE (IF Head(tokens) = term THEN 1 ELSE 0) + CountOf(Tail(tokens), term)

Counter(tokens) ==
    [term \in {tokens[i] : i \in 1..Len(tokens)} |-> CountOf(tokens, term)]

RECURSIVE KeysInOrder(_, _)
\* The distinct tokens in the order of their first occurrence.
KeysInOrder(tokens, seen) ==
    IF tokens = <<>> THEN <<>>
    ELSE IF Head(tokens) \in seen
         THEN KeysInOrder(Tail(tokens), seen)
         ELSE <<Head(tokens)>> \o KeysInOrder(Tail(tokens), seen \cup {Head(tokens)})

\* A set as a sequence, for loops whose order does not change the result.
RECURSIVE SeqOf(_)
SeqOf(S) ==
    IF S = {} THEN <<>>
    ELSE LET x == CHOOSE y \in S : TRUE IN <<x>> \o SeqOf(S \ {x})

(***************************************************************************)
(* BM25Indexer state: a record with the fields of the object.              *)
(***************************************************************************)

\* BM25Indexer.__init__
NewIndexer ==
    [ vocab |-> <<>>,            \* term -> id
      df |-> <<>>,               \* term -> document frequency
      N |-> 0,
      doc_lens_total |-> 0,
      docs |-> <<>> ]            \* doc_id -> [tf, len]

\* Counter.__getitem__ / dict.get(term, 0)
DfGet(df, term) == IF term \in DOMAIN df THEN df[term] ELSE 0

\* A map with one key set, and with one key deleted.
MapSet(m, k, v) == [x \in DOMAIN m \cup {k} |-> IF x = k THEN v ELSE m[x]]
MapDel(m, k) == [x \in DOMAIN m \ {k} |-> m[x]]

\* len(self.vocab) >= self.max_vocab
AtCapacity(vocab) == Cardinality(DOMAIN vocab) >= max_vocab

\* _ensure_term with the capacity test off by one (> for >=).
EnsureTermOffByOne(vocab, term) ==
    IF term \in DOMAIN vocab
    THEN [vocab |-> vocab, idx |-> vocab[term]]
    ELSE IF Cardinality(DOMAIN vocab) > max_vocab
         THEN [vocab |-> vocab, idx |-> -1]
         ELSE [vocab |-> MapSet(vocab, term, Cardinality(DOMAIN vocab)),
               idx |-> Cardinality(DOMAIN vocab)]

\* BM25Indexer._ensure_term: the pair of the vocabulary after the call and
\* the value returned (-1 stands for None).
_ensure_term(vocab, term) ==
    IF term \in DOMAIN vocab
    THEN [vocab |-> vocab, idx |-> vocab[term]]
    ELSE IF AtCapacity(vocab)
         THEN [vocab |-> vocab, idx |-> -1]
         ELSE [vocab |-> MapSet(vocab, term, Cardinality(DOMAIN vocab)),
               idx |-> Cardinality(DOMAIN vocab)]

\* The decrement without "del self.df[term]": an entry that reaches 0 stays.
DfDecrementKeepsZero(df, term) == MapSet(df, term, DfGet(df, term) - 1)

\* self.df[term] -= 1; if self.df[term] <= 0: del self.df[term]
DfDecrement(df, term) ==
    IF DfGet(df, term) - 1 <= 0
    THEN MapDel(df, term)
    ELSE MapSet(df, term, DfGet(df, term) - 1)

RECURSIVE DfDecrementAll(_, _)
\* for term in old_tf.keys(): decrement
DfDecrementAll(df, terms) ==
    IF terms = <<>> THEN df
    ELSE DfDecrementAll(DfDecrement(df, Head(terms)), Tail(terms))

\* self.df[term] += 1
DfIncrement(df, term) == MapSet(df, term, DfGet(df, term) + 1)

RECURSIVE AddCountsOnlyKnownTerms(_, _)
\* The loop counting a term in df only when it has a vocabulary id.
AddCountsOnlyKnownTerms(ix, terms) ==
    IF terms = <<>> THEN ix
    ELSE LET vocab == _ensure_term(ix.vocab, Head(terms)).vocab
         IN AddCountsOnlyKnownTerms(
                [ix EXCEPT !.df = IF Head(terms) \in DOMAIN vocab
                                  THEN DfIncrement(ix.df, Head(terms))
                                  ELSE ix.df,
                           !.vocab = vocab],
                Tail(terms))

RECURSIVE AddCounts(_, _)
\* for term in tf.keys(): self.df[term] += 1; self._ensure_term(term)
AddCounts(ix, terms) ==
    IF terms = <<>> THEN ix
    ELSE AddCounts([ix EXCEPT !.df = DfIncrement(ix.df, Head(terms)),
                              !.vocab = _ensure_term(ix.vocab, Head(terms)).vocab],
                   Tail(terms))

\* The statement with "self.N += 1" outside the else branch.
RemoveOldCountsAlwaysCounts(ix, doc_id) ==
    IF doc_id \in DOMAIN ix.docs
    THEN [ix EXCEPT !.df = DfDecrementAll(ix.df, SeqOf(DOMAIN ix.docs[doc_id].tf)),
                    !.doc_lens_total = ix.doc_lens_total - ix.docs[doc_id].len,
                    !.N = ix.N + 1]
    ELSE [ix EXCEPT !.N = ix.N + 1]

\* The statement without the df decrement of the old terms.
RemoveOldCountsKeepsDf(ix, doc_id) ==
    IF doc_id \in DOMAIN ix.docs
    THEN [ix EXCEPT !.doc_lens_total = ix.doc_lens_total - ix.docs[doc_id].len]
    ELSE [ix EXCEPT !.N = ix.N + 1]

\* The statement without "self.doc_lens_total -= old_len".
RemoveOldCountsKeepsLength(ix, doc_id) ==
    IF doc_id \in DOMAIN ix.docs
    THEN [ix EXCEPT !.df = DfDecrementAll(ix.df, SeqOf(DOMAIN ix.docs[doc_id].tf))]
    ELSE [ix EXCEPT !.N = ix.N + 1]

\* add_or_update, the "if doc_id in self._docs ... else ..." statement:
\* take out the old contribution of a replaced document, or count a new one.
RemoveOldCounts(ix, doc_id) ==
    IF doc_id \in DOMAIN ix.docs
    THEN [ix EXCEPT !.df = DfDecrementAll(ix.df, SeqOf(DOMAIN ix.docs[doc_id].tf)),
                    !.doc_lens_total = ix.doc_lens_total - ix.docs[doc_id].len]
    ELSE [ix EXCEPT !.N = ix.N + 1]

\* add_or_update, from the old-count removal to the store of the record.
ApplyDocument(ix, doc_id, tokens) ==
    LET a == RemoveOldCounts(ix, doc_id)
        b == AddCounts(a, KeysInOrder(tokens, {}))
    IN [b EXCEPT !.doc_lens_total = b.doc_lens_total + Len(tokens),
                 !.docs = MapSet(b.docs, doc_id,
                                 [tf |-> Counter(tokens), len |-> Len(tokens)])]

RECURSIVE ScoredIdsKeepsUnknown(_, _)
\* The loop without "if idx is None: continue" for the ids: a term without
\* a vocabulary entry is emitted with the id -1.
ScoredIdsKeepsUnknown(vocab, terms) ==
    IF terms = <<>> THEN <<>>
    ELSE IF Head(terms) \in DOMAIN vocab
         THEN <<vocab[Head(terms)]>> \o ScoredIdsKeepsUnknown(vocab, Tail(terms))
         ELSE <<-1>> \o ScoredIdsKeepsUnknown(vocab, Tail(terms))

RECURSIVE ScoredIds(_, _)
\* The scoring loop of add_or_update and transform: the ids of the terms
\* that have a vocabulary entry, in the order of tf.items().
ScoredIds(vocab, terms) ==
    IF terms = <<>> THEN <<>>
    ELSE IF Head(terms) \in DOMAIN vocab
         THEN <<vocab[Head(terms)]>> \o ScoredIds(vocab, Tail(terms))
         ELSE ScoredIds(vocab, Tail(terms))

(***************************************************************************)
(* BM25 scores.  The floats of the code are modelled as exact rationals    *)
(* [num, den] in lowest terms with den > 0.  A score is the product        *)
(* math.log(idf) * tf and is kept as the pair of the logarithm's argument  *)
(* idf and the factor tf, both rationals.                                  *)
(***************************************************************************)

RECURSIVE GCD(_, _)
GCD(m, n) == IF n = 0 THEN m ELSE GCD(n, m % n)

\* The rational n/d, d > 0, in lowest terms.
Rat(n, d) ==
    LET g == GCD(IF n < 0 THEN -n ELSE n, d)
    IN [num |-> n \div g, den |-> d \div g]

RatInt(n) == Rat(n, 1)
RatAdd(x, y) == Rat(x.num * y.den + y.num * x.den, x.den * y.den)
RatSub(x, y) == Rat(x.num * y.den - y.num * x.den, x.den * y.den)
RatMul(x, y) == Rat(x.num * y.num, x.den * y.den)
\* x / y for y > 0
RatDiv(x, y) == Rat(x.num * y.den, x.den * y.num)
RatLess(x, y) == x.num * y.den < y.num * x.den
\* max(x, y)
RatMax(x, y) == IF RatLess(x, y) THEN y ELSE x

\* BM25Indexer(k1=1.5, b=0.75): the defaults, which the connector uses.
self_k1 == Rat(3, 2)
self_b == Rat(3, 4)

\* BM25Indexer.avgdl
avgdl(ix) == IF ix.N > 0 THEN Rat(ix.doc_lens_total, ix.N) ELSE RatInt(1)

\* The argument of the logarithm without the add-one smoothing:
\* (self.N - df + 0.5) / (df + 0.5)
IdfArgUnsmoothed(ix, term) ==
    LET df == DfGet(ix.df, term)
    IN RatDiv(RatAdd(RatInt(ix.N - df), Rat(1, 2)), RatAdd(RatInt(df), Rat(1, 2)))

\* The argument of math.log: 1 + (self.N - df + 0.5) / (df + 0.5)
IdfArg(ix, term) ==
    LET df == DfGet(ix.df, term)
    IN RatAdd(RatInt(1), RatDiv(RatAdd(RatInt(ix.N - df), Rat(1, 2)),
                                RatAdd(RatInt(df), Rat(1, 2))))

\* denom with the length divided by the average length itself where that is
\* positive, and by 1.0 otherwise.
DenomUnfloored(ix, freq, doc_len) ==
    RatAdd(RatInt(freq),
           RatMul(self_k1,
                  RatAdd(RatSub(RatInt(1), self_b),
                         RatMul(self_b,
                                RatDiv(RatInt(doc_len),
                                       IF avgdl(ix).num > 0 THEN avgdl(ix)
                                       ELSE RatInt(1))))))

\* denom = freq + self.k1 * (1 - self.b + self.b * (doc_len / max(1.0, self.avgdl)))
Denom(ix, freq, doc_len) ==
    RatAdd(RatInt(freq),
           RatMul(self_k1,
                  RatAdd(RatSub(RatInt(1), self_b),
                         RatMul(self_b,
                                RatDiv(RatInt(doc_len),
                                       RatMax(RatInt(1), avgdl(ix)))))))

\* The score computed as if every term occurred once in the text.
ScoreIgnoresFrequency(ix, term, freq, doc_len) ==
    [idf |-> IdfArg(ix, term),
     tf |-> RatDiv(RatMul(RatInt(1), RatAdd(self_k1, RatInt(1))),
                   Denom(ix, 1, doc_len))]

\* score = idf * ((freq * (self.k1 + 1)) / denom)
Score(ix, term, freq, doc_len) ==
    [idf |-> IdfArg(ix, term),
     tf |-> RatDiv(RatMul(RatInt(freq), RatAdd(self_k1, RatInt(1))),
                   Denom(ix, freq, doc_len))]

RECURSIVE ScoredValues(_, _, _, _)
\* The scoring loop of add_or_update and transform: the scores of the terms
\* that have a vocabulary entry, in the order of tf.items().
ScoredValues(ix, tf, terms, doc_len) ==
    IF terms = <<>> THEN <<>>
    ELSE IF Head(terms) \in DOMAIN ix.vocab
         THEN <<Score(ix, Head(terms), tf[Head(terms)], doc_len)>>
              \o ScoredValues(ix, tf, Tail(terms), doc_len)
         ELSE ScoredValues(ix, tf, Tail(terms), doc_len)

\* add_or_update with the scoring loop run before the document's own counts
\* are applied.
AddOrUpdateScoresFirst(ix, doc_id, text) ==
    LET tokens == _tokenize(text)
        after == ApplyDocument(ix, doc_id, tokens)
    IN [ix |-> after,
        ids |-> ScoredIds(after.vocab, KeysInOrder(tokens, {})),
        values |-> ScoredValues([ix EXCEPT !.vocab = after.vocab], Counter(tokens),
                                KeysInOrder(tokens, {}), Len(tokens))]

\* BM25Indexer.add_or_update: the index after the call and the (ids, values)
\* returned.
add_or_update(ix, doc_id, text) ==
    LET tokens == _tokenize(text)
        after == ApplyDocument(ix, doc_id, tokens)
    IN [ix |-> after,
        ids |-> ScoredIds(after.vocab, KeysInOrder(tokens, {})),
        values |-> ScoredValues(after, Counter(tokens), KeysInOrder(tokens, {}),
                                Len(tokens))]

\* transform written like add_or_update's loop: it registers unseen terms.
TransformRegistersTerms(ix, text) ==
    LET tokens == _tokenize(text)
        after == [ix EXCEPT !.vocab = AddCounts(ix, KeysInOrder(tokens, {})).vocab]
    IN [ix |-> after,
        ids |-> IF ix.N = 0 THEN <<>>
                ELSE ScoredIds(after.vocab, KeysInOrder(tokens, {})),
        values |-> IF ix.N = 0 THEN <<>>
                   ELSE ScoredValues(after, Counter(tokens), KeysInOrder(tokens, {}),
                                     Len(tokens))]

\* transform without the "if self.N == 0: return ids, values" statement.
TransformWithoutEmptyCheck(ix, text) ==
    LET tokens == _tokenize(text)
    IN [ix |-> ix,
        ids |-> ScoredIds(ix.vocab, KeysInOrder(tokens, {})),
        values |-> ScoredValues(ix, Counter(tokens), KeysInOrder(tokens, {}),
                                Len(tokens))]

\* BM25Indexer.transform: the index after the call and the (ids, values)
\* returned.
transform(ix, text) ==
    LET tokens == _tokenize(text)
    IN [ix |-> ix,
        ids |-> IF ix.N = 0 THEN <<>>
                ELSE ScoredIds(ix.vocab, KeysInOrder(tokens, {})),
        values |-> IF ix.N = 0 THEN <<>>
                   ELSE ScoredValues(ix, Counter(tokens), KeysInOrder(tokens, {}),
                                     Len(tokens))]

\* max(0, self.N - 1)
Max0(n) == IF n > 0 THEN n ELSE 0

\* remove without the df decrement: the removed document's terms stay counted.
RemoveKeepsDf(ix, doc_id) ==
    IF doc_id \notin DOMAIN ix.docs
    THEN ix
    ELSE [ix EXCEPT !.docs = MapDel(ix.docs, doc_id),
                    !.doc_lens_total = ix.doc_lens_total - ix.docs[doc_id].len,
                    !.N = Max0(ix.N - 1)]

\* remove that also forgets the vocabulary entries of the terms whose df
\* dropped to zero, which frees capacity.
RemoveFreesVocabulary(ix, doc_id) ==
    IF doc_id \notin DOMAIN ix.docs
    THEN ix
    ELSE LET df2 == DfDecrementAll(ix.df, SeqOf(DOMAIN ix.docs[doc_id].tf))
         IN [ix EXCEPT !.docs = MapDel(ix.docs, doc_id),
                       !.df = df2,
                       !.vocab = [t \in {u \in DOMAIN ix.vocab : u \in DOMAIN df2}
                                    |-> ix.vocab[t]],
                       !.doc_lens_total = ix.doc_lens_total - ix.docs[doc_id].len,
                       !.N = Max0(ix.N - 1)]

\* remove that releases the ids of the terms whose df dropped to zero and
\* renumbers the terms that are left.
RemoveRenumbersVocabulary(ix, doc_id) ==
    IF doc_id \notin DOMAIN ix.docs
    THEN ix
    ELSE LET df2 == DfDecrementAll(ix.df, SeqOf(DOMAIN ix.docs[doc_id].tf))
             kept == {u \in DOMAIN ix.vocab : u \in DOMAIN df2}
         IN [ix EXCEPT !.docs = MapDel(ix.docs, doc_id),
                       !.df = df2,
                       !.vocab = [t \in kept |->
                                    Cardinality({u \in kept : ix.vocab[u] < ix.vocab[t]})],
                       !.doc_lens_total = ix.doc_lens_total - ix.docs[doc_id].len,
                       !.N = Max0(ix.N - 1)]

\* remove without "self.doc_lens_total -= old_len".
RemoveKeepsLength(ix, doc_id) ==
    IF doc_id \notin DOMAIN ix.docs
    THEN ix
    ELSE [ix EXCEPT !.docs = MapDel(ix.docs, doc_id),
                    !.df = DfDecrementAll(ix.df, SeqOf(DOMAIN ix.docs[doc_id].tf)),
                    !.N = Max0(ix.N - 1)]

\* remove that counts N down for an id that is not indexed too.
RemoveUnknownCountsDown(ix, doc_id) ==
    IF doc_id \notin DOMAIN ix.docs
    THEN [ix EXCEPT !.N = Max0(ix.N - 1)]
    ELSE [ix EXCEPT !.docs = MapDel(ix.docs, doc_id),
                    !.df = DfDecrementAll(ix.df, SeqOf(DOMAIN ix.docs[doc_id].tf)),
                    !.doc_lens_total = ix.doc_lens_total - ix.docs[doc_id].len,
                    !.N = Max0(ix.N - 1)]

\* BM25Indexer.remove
remove(ix, doc_id) ==
    IF doc_id \notin DOMAIN ix.docs
    THEN ix
    ELSE [ix EXCEPT !.docs = MapDel(ix.docs, doc_id),
                    !.df = DfDecrementAll(ix.df, SeqOf(DOMAIN ix.docs[doc_id].tf)),
                    !.doc_lens_total = ix.doc_lens_total - ix.docs[doc_id].len,
                    !.N = Max0(ix.N - 1)]


(***************************************************************************)
(* The QdrantConnector and its collaborators.                              *)
(***************************************************************************)

\* Python's None.
None == "None"

Tasks == {"t1", "t2"}

\* The collection name the requests use.
CollectionNames == {"notes"}

\* The values uuid.uuid4().hex returns, in the order it returns them, and
\* the point ids update and delete are called with.
UuidPool == <<"p1", "p2">>
PointIds == <<"p1", "p2">>

\* Entry(content, metadata) values handed to store and update.
Entries ==
    { [content |-> <<"A", " ", "b">>, metadata |-> "m"],
      [content |-> <<"-", "c">>, metadata |-> None] }

\* The arguments of the find_hybrid requests.  fusion_method is a character
\* sequence ("rrf", "RRF", "dbsf", "typo"); query_filter is None or a filter
\* that keeps the points with metadata "m".
HybridRequests ==
    { [query |-> <<"B">>, fusion_method |-> <<"r", "r", "f">>,
       dense_limit |-> 2, sparse_limit |-> 1, final_limit |-> 1,
       query_filter |-> None],
      [query |-> <<"B">>, fusion_method |-> <<"R", "R", "F">>,
       dense_limit |-> 1, sparse_limit |-> 2, final_limit |-> 2,
       query_filter |-> "m"],
      [query |-> <<"-">>, fusion_method |-> <<"d", "b", "s", "f">>,
       dense_limit |-> 2, sparse_limit |-> 1, final_limit |-> 1,
       query_filter |-> "m"],
      [query |-> <<"-">>, fusion_method |-> <<"t", "y", "p", "o">>,
       dense_limit |-> 1, sparse_limit |-> 2, final_limit |-> 2,
       query_filter |-> None] }

\* The arguments of the search requests.
SearchRequests ==
    { [query |-> <<"B">>, limit |-> 1, query_filter |-> None],
      [query |-> <<"B">>, limit |-> 2, query_filter |-> None],
      [query |-> <<"-">>, limit |-> 2, query_filter |-> "m"] }

\* EmbeddingProvider.get_vector_name()
VectorName == "dense"

\* EmbeddingProvider.embed_documents / embed_query: a one-dimensional vector.
Embed(text) == <<Len(text)>>

\* The point built with the "sparse" entry whatever add_or_update returned.
BuildPointAlwaysSparse(point_id, entry, embedding, sparse_ids, sparse_values) ==
    [ id |-> point_id,
      payload |-> [document |-> entry.content, metadata |-> entry.metadata],
      vector |-> [x \in {VectorName, "sparse"} |->
                    IF x = VectorName THEN embedding
                    ELSE [ids |-> sparse_ids, values |-> sparse_values]] ]

\* The point store and update build: payload {document, metadata}, the dense
\* vector under the provider's vector name and, when add_or_update returned a
\* non-empty vector, the sparse vector under "sparse".
BuildPoint(point_id, entry, embedding, sparse_ids, sparse_values) ==
    [ id |-> point_id,
      payload |-> [document |-> entry.content, metadata |-> entry.metadata],
      vector |-> IF sparse_ids # <<>>
                 THEN [x \in {VectorName, "sparse"} |->
                          IF x = VectorName THEN embedding
                          ELSE [ids |-> sparse_ids, values |-> sparse_values]]
                 ELSE [x \in {VectorName} |-> embedding] ]

(***************************************************************************)
(* The store's answers (AsyncQdrantClient), for a call that succeeds.      *)
(***************************************************************************)

\* retrieve(collection_name, ids=[point_id])
Retrieve(q, coll, point_id) ==
    IF point_id \in DOMAIN q[coll] THEN <<q[coll][point_id]>> ELSE <<>>

\* An upsert that also rewrites the sparse weights of the other points of
\* the collection with the scores the index gives their documents now.
UpsertRecomputesOthers(q, coll, point) ==
    LET pts == MapSet(q[coll], point.id, point)
        Rescored(pt) ==
            LET tokens == _tokenize(pt.payload.document)
            IN IF "sparse" \in DOMAIN pt.vector
               THEN [pt EXCEPT !.vector["sparse"].values =
                        ScoredValues(bm25, Counter(tokens), KeysInOrder(tokens, {}),
                                     Len(tokens))]
               ELSE pt
    IN [q EXCEPT ![coll] = [x \in DOMAIN pts |->
                              IF x = point.id THEN pts[x] ELSE Rescored(pts[x])]]

\* upsert(collection_name, points=[point])
Upsert(q, coll, point) == [q EXCEPT ![coll] = MapSet(@, point.id, point)]

\* delete(collection_name, points_selector=[point_id])
Delete(q, coll, point_id) == [q EXCEPT ![coll] = MapDel(@, point_id)]

\* create_collection(collection_name, vectors_config)
CreateCollection(q, coll) == MapSet(q, coll, <<>>)

MatchesFilter(point, query_filter) ==
    query_filter = None \/ point.payload.metadata = query_filter

Abs(n) == IF n < 0 THEN -n ELSE n

IdRank(point_id) == CHOOSE i \in 1..Len(PointIds) : PointIds[i] = point_id

\* Point x is at least as near to the dense query vector as point y.
Nearer(pts, qvec, x, y) ==
    LET dx == Abs(pts[x].vector[VectorName][1] - qvec[1])
        dy == Abs(pts[y].vector[VectorName][1] - qvec[1])
    IN dx < dy \/ (dx = dy /\ IdRank(x) <= IdRank(y))

RECURSIVE Nearest(_, _, _, _)
\* The k points of cands nearest to the dense query vector, nearest first.
Nearest(pts, cands, qvec, k) ==
    IF k = 0 \/ cands = {} THEN <<>>
    ELSE LET best == CHOOSE x \in cands : \A y \in cands : Nearer(pts, qvec, x, y)
         IN <<best>> \o Nearest(pts, cands \ {best}, qvec, k - 1)

\* The number of term ids a point's sparse vector shares with the query's.
Overlap(point, ids) ==
    IF "sparse" \in DOMAIN point.vector
    THEN Cardinality({i \in 1..Len(ids) :
                        \E j \in 1..Len(point.vector["sparse"].ids) :
                            point.vector["sparse"].ids[j] = ids[i]})
    ELSE 0

RECURSIVE BestMatches(_, _, _, _)
\* The k points of cands with the largest overlap with the sparse query.
BestMatches(pts, cands, ids, k) ==
    IF k = 0 \/ cands = {} THEN <<>>
    ELSE LET best == CHOOSE x \in cands : \A y \in cands :
                        \/ Overlap(pts[x], ids) > Overlap(pts[y], ids)
                        \/ /\ Overlap(pts[x], ids) = Overlap(pts[y], ids)
                           /\ IdRank(x) <= IdRank(y)
         IN <<best>> \o BestMatches(pts, cands \ {best}, ids, k - 1)

SeqRange(seq) == {seq[i] : i \in 1..Len(seq)}

\* The ids one prefetch request yields.
PrefetchIds(pts, pf) ==
    IF pf.using = "sparse"
    THEN BestMatches(pts, {x \in DOMAIN pts : Overlap(pts[x], pf.query) > 0},
                     pf.query, pf.limit)
    ELSE Nearest(pts, DOMAIN pts, pf.query, pf.limit)

\* query_points: the ids of the points a request yields.  A plain request
\* ranks the points that pass the filter by dense similarity; a fused request
\* ranks the points its prefetches yield.  The ranking the store derives from
\* the fusion method is not modelled: the fused points are listed nearest
\* first by the first prefetch's query.
QueryPoints(pts, request) ==
    IF request.prefetch = <<>>
    THEN Nearest(pts, {x \in DOMAIN pts : MatchesFilter(pts[x], request.query_filter)},
                 request.query, request.limit)
    ELSE LET found == UNION {SeqRange(PrefetchIds(pts, request.prefetch[i])) :
                               i \in 1..Len(request.prefetch)}
         IN Nearest(pts, {x \in found : MatchesFilter(pts[x], request.query_filter)},
                    request.prefetch[1].query, request.limit)

\* The Entry list built without the payload's metadata.
ToEntriesWithoutMetadata(pts, ids) ==
    [i \in 1..Len(ids) |->
        [content |-> pts[ids[i]].payload.document,
         metadata |-> None,
         id |-> ids[i]]]

\* The Entry list search builds from the points of a result.
ToEntries(pts, ids) ==
    [i \in 1..Len(ids) |->
        [content |-> pts[ids[i]].payload.document,
         metadata |-> pts[ids[i]].payload.metadata,
         id |-> ids[i]]]

(***************************************************************************)
(* Connector requests.  A request is an asyncio task: the code between two *)
(* awaits runs without interruption, so each action is one awaited call    *)
(* completing (or raising) followed by the code up to the next await.      *)
(* A task record holds the request's arguments and locals, the awaited     *)
(* calls it has made (calls) and its outcome (result).                     *)
(***************************************************************************)

NoEntry == [content |-> <<>>, metadata |-> None]

NoRequest ==
    [prefetch |-> <<>>, query |-> <<>>, using |-> "", fusion |-> "",
     limit |-> 0, query_filter |-> None]

NoSearch == [query |-> <<>>, coll |-> None, limit |-> 0, query_filter |-> None]

NoResult == [kind |-> "none", entries |-> <<>>, detail |-> ""]

IdleTask ==
    [ op |-> "idle", pc |-> "idle",
      collection_name |-> None,      \* the argument of update and delete
      coll |-> None,                 \* collection_name after "or default"
      point_id |-> "", entry |-> NoEntry,
      query |-> <<>>, fusion_method |-> <<>>,
      dense_limit |-> 0, sparse_limit |-> 0, final_limit |-> 0,
      query_filter |-> None,
      point |-> BuildPoint("", NoEntry, <<0>>, <<>>, <<>>),  \* the point to upsert
      request |-> NoRequest,         \* the query_points request built
      search |-> NoSearch,           \* the arguments of the search() call
      fallback |-> "",               \* the call whose exception search() answers
      calls |-> <<>>,
      result |-> NoResult ]

\* The resolution without "or self._default_collection_name".
ResolveIgnoresDefault(collection_name) == collection_name

\* collection_name or self._default_collection_name
Resolve(collection_name) ==
    IF collection_name # None THEN collection_name ELSE conn._default_collection_name

CanBegin(t) == tasks[t].pc \in {"idle", "done"}

Called(task, fn) == [task EXCEPT !.calls = Append(@, fn)]

\* The request ends: it returns entries (or None), or raises.
Finish(task, kind, entries, detail) ==
    [task EXCEPT !.pc = "done",
                 !.result = [kind |-> kind, entries |-> entries, detail |-> detail]]

\* An awaited call raises and nothing catches it.
Raise(task, fn) == Finish(Called(task, fn), "error", <<>>, fn)

\* The values uuid4 has not returned yet; every value it returned went into
\* the index with the add_or_update of the same step.
FreshUuids == SeqRange(UuidPool) \ DOMAIN bm25.docs

NextUuid == UuidPool[CHOOSE i \in 1..Len(UuidPool) :
                        /\ UuidPool[i] \in FreshUuids
                        /\ \A j \in 1..(i - 1) : UuidPool[j] \notin FreshUuids]

\* ---- store -------------------------------------------------------------

BeginStore(t) ==
    /\ CanBegin(t)
    /\ Cardinality(FreshUuids) >
          Cardinality({u \in Tasks : tasks[u].op = "store" /\
                          tasks[u].pc \in {"ensure_exists", "create", "embed"}})
    /\ \E entry \in Entries, collection_name \in CollectionNames \cup {None} :
          LET task == [IdleTask EXCEPT !.op = "store", !.entry = entry,
                                       !.coll = Resolve(collection_name)]
          IN tasks' = [tasks EXCEPT ![t] =
                \* assert collection_name is not None
                IF task.coll = None
                THEN Finish(task, "AssertionError", <<>>, "")
                ELSE [task EXCEPT !.pc = "ensure_exists"]]
    /\ UNCHANGED <<bm25, ret, conn, qdrant>>

\* _ensure_collection_exists: await collection_exists
StoreEnsureExists(t) ==
    /\ tasks[t].pc = "ensure_exists"
    /\ \E ok \in BOOLEAN :
          tasks' = [tasks EXCEPT ![t] =
                IF ~ok THEN Raise(@, "collection_exists")
                ELSE [Called(@, "collection_exists") EXCEPT !.pc =
                         IF tasks[t].coll \in DOMAIN qdrant THEN "embed" ELSE "create"]]
    /\ UNCHANGED <<bm25, ret, conn, qdrant>>

\* _ensure_collection_exists: await create_collection (no field indexes are
\* configured)
StoreCreate(t) ==
    /\ tasks[t].pc = "create"
    /\ \E ok \in BOOLEAN :
          /\ ok => tasks[t].coll \notin DOMAIN qdrant
          /\ tasks' = [tasks EXCEPT ![t] =
                IF ~ok THEN Raise(@, "create_collection")
                ELSE [Called(@, "create_collection") EXCEPT !.pc = "embed"]]
          /\ qdrant' = IF ok THEN CreateCollection(qdrant, tasks[t].coll) ELSE qdrant
    /\ UNCHANGED <<bm25, ret, conn>>

\* The same code with the index mutation lost: the point is built from the
\* vector add_or_update returns, the index stays as it was.
IndexAndBuildLosesMutation(task, point_id) ==
    LET r == add_or_update(bm25, point_id, task.entry.content)
    IN [ix |-> bm25,
        task |-> [Called(task, "embed_documents") EXCEPT
                     !.pc = "upsert",
                     !.point_id = point_id,
                     !.point = BuildPoint(point_id, task.entry,
                                          Embed(task.entry.content),
                                          r.ids, r.values)]]

\* The same code suspended inside add_or_update, after its first statement:
\* the old counts are removed or N is incremented, the new counts are not
\* applied yet.
IndexAndBuildSuspended(task, point_id) ==
    LET r == add_or_update(bm25, point_id, task.entry.content)
    IN [ix |-> RemoveOldCounts(bm25, point_id),
        task |-> [Called(task, "embed_documents") EXCEPT
                     !.pc = "upsert",
                     !.point_id = point_id,
                     !.point = BuildPoint(point_id, task.entry,
                                          Embed(task.entry.content),
                                          r.ids, r.values)]]

\* The code from the return of embed_documents to the upsert call, common to
\* store and update: add_or_update on the index, then the point is built.
IndexAndBuild(task, point_id) ==
    LET r == add_or_update(bm25, point_id, task.entry.content)
    IN [ix |-> r.ix,
        task |-> [Called(task, "embed_documents") EXCEPT
                     !.pc = "upsert",
                     !.point_id = point_id,
                     !.point = BuildPoint(point_id, task.entry,
                                          Embed(task.entry.content),
                                          r.ids, r.values)]]

\* await embed_documents, then uuid4, add_or_update and the point
StoreEmbed(t) ==
    /\ tasks[t].op = "store" /\ tasks[t].pc = "embed"
    /\ \E ok \in BOOLEAN :
          LET r == IndexAndBuild(tasks[t], NextUuid)
          IN /\ tasks' = [tasks EXCEPT ![t] =
                    IF ok THEN r.task ELSE Raise(@, "embed_documents")]
             /\ bm25' = IF ok THEN r.ix ELSE bm25
    /\ UNCHANGED <<ret, conn, qdrant>>

\* await upsert, of store and of update
UpsertPoint(t) ==
    /\ tasks[t].pc = "upsert"
    /\ \E ok \in BOOLEAN :
          /\ ok => tasks[t].coll \in DOMAIN qdrant
          /\ tasks' = [tasks EXCEPT ![t] =
                IF ok THEN Finish(Called(@, "upsert"), "returned", <<>>, "")
                ELSE Raise(@, "upsert")]
          /\ qdrant' = IF ok THEN Upsert(qdrant, tasks[t].coll, tasks[t].point)
                       ELSE qdrant
    /\ UNCHANGED <<bm25, ret, conn>>

\* ---- update and delete ---------------------------------------------------

BeginUpdate(t) ==
    /\ CanBegin(t)
    /\ \E point_id \in SeqRange(PointIds), entry \in Entries,
          collection_name \in CollectionNames \cup {None} :
          LET task == [IdleTask EXCEPT !.op = "update", !.point_id = point_id,
                                       !.entry = entry,
                                       !.collection_name = collection_name,
                                       !.coll = Resolve(collection_name)]
          IN tasks' = [tasks EXCEPT ![t] =
                IF task.coll = None
                THEN Finish(task, "AssertionError", <<>>, "")
                ELSE [task EXCEPT !.pc = "retrieve"]]
    /\ UNCHANGED <<bm25, ret, conn, qdrant>>

BeginDelete(t) ==
    /\ CanBegin(t)
    /\ \E point_id \in SeqRange(PointIds),
          collection_name \in CollectionNames \cup {None} :
          LET task == [IdleTask EXCEPT !.op = "delete", !.point_id = point_id,
                                       !.collection_name = collection_name,
                                       !.coll = Resolve(collection_name)]
          IN tasks' = [tasks EXCEPT ![t] =
                IF task.coll = None
                THEN Finish(task, "AssertionError", <<>>, "")
                ELSE [task EXCEPT !.pc = "retrieve"]]
    /\ UNCHANGED <<bm25, ret, conn, qdrant>>

\* The step after the existence check of update and delete found the point.
AfterRetrieve(task) == IF task.op = "update" THEN "embed" ELSE "delete"

\* The existence check without the raise: a missing point is treated like a
\* found one.
CheckExistsNoRaise(t) ==
    /\ tasks[t].pc = "retrieve"
    /\ \E ok \in BOOLEAN :
          /\ ok => tasks[t].coll \in DOMAIN qdrant
          /\ tasks' = [tasks EXCEPT ![t] =
                IF ~ok THEN Raise(@, "retrieve")
                ELSE [Called(@, "retrieve") EXCEPT !.pc = AfterRetrieve(tasks[t])]]
    /\ UNCHANGED <<bm25, ret, conn, qdrant>>

\* await retrieve; "if not point: raise ValueError"
CheckExists(t) ==
    /\ tasks[t].pc = "retrieve"
    /\ \E ok \in BOOLEAN :
          /\ ok => tasks[t].coll \in DOMAIN qdrant
          /\ tasks' = [tasks EXCEPT ![t] =
                IF ~ok THEN Raise(@, "retrieve")
                ELSE IF Retrieve(qdrant, @.coll, @.point_id) = <<>>
                     THEN Finish(Called(@, "retrieve"), "ValueError", <<>>, "not found")
                     ELSE [Called(@, "retrieve") EXCEPT !.pc = AfterRetrieve(tasks[t])]]
    /\ UNCHANGED <<bm25, ret, conn, qdrant>>

\* await embed_documents, then add_or_update and the point
UpdateEmbed(t) ==
    /\ tasks[t].op = "update" /\ tasks[t].pc = "embed"
    /\ \E ok \in BOOLEAN :
          LET r == IndexAndBuild(tasks[t], tasks[t].point_id)
          IN /\ tasks' = [tasks EXCEPT ![t] =
                    IF ok THEN r.task ELSE Raise(@, "embed_documents")]
             /\ bm25' = IF ok THEN r.ix ELSE bm25
    /\ UNCHANGED <<ret, conn, qdrant>>

\* await delete
DeletePoint(t) ==
    /\ tasks[t].pc = "delete"
    /\ \E ok \in BOOLEAN :
          /\ ok => tasks[t].coll \in DOMAIN qdrant
          /\ tasks' = [tasks EXCEPT ![t] =
                IF ok THEN Finish(Called(@, "delete"), "returned", <<>>, "")
                ELSE Raise(@, "delete")]
          /\ qdrant' = IF ok THEN Delete(qdrant, tasks[t].coll, tasks[t].point_id)
                       ELSE qdrant
    /\ UNCHANGED <<bm25, ret, conn>>

\* ---- search -------------------------------------------------------------

BeginSearch(t) ==
    /\ CanBegin(t)
    /\ \E args \in SearchRequests, collection_name \in CollectionNames \cup {None} :
          tasks' = [tasks EXCEPT ![t] =
                [IdleTask EXCEPT !.op = "search", !.pc = "s_exists",
                                 !.search = [query |-> args.query,
                                             coll |-> Resolve(collection_name),
                                             limit |-> args.limit,
                                             query_filter |-> args.query_filter]]]
    /\ UNCHANGED <<bm25, ret, conn, qdrant>>

\* search: await collection_exists; "if not collection_exists: return []"
SearchExists(t) ==
    /\ tasks[t].pc = "s_exists"
    /\ \E ok \in BOOLEAN :
          tasks' = [tasks EXCEPT ![t] =
                IF ~ok THEN Raise(@, "collection_exists")
                ELSE IF tasks[t].search.coll \in DOMAIN qdrant
                     THEN [Called(@, "collection_exists") EXCEPT !.pc = "s_embed"]
                     ELSE Finish(Called(@, "collection_exists"), "returned", <<>>, "")]
    /\ UNCHANGED <<bm25, ret, conn, qdrant>>

\* The plain request of search: the query vector against the dense vectors.
DenseRequest(query_vector, limit, query_filter) ==
    [prefetch |-> <<>>, query |-> query_vector, using |-> VectorName,
     fusion |-> "", limit |-> limit, query_filter |-> query_filter]

\* search: await embed_query, then the query_points request is built
SearchEmbed(t) ==
    /\ tasks[t].pc = "s_embed"
    /\ \E ok \in BOOLEAN :
          tasks' = [tasks EXCEPT ![t] =
                IF ~ok THEN Raise(@, "embed_query")
                ELSE [Called(@, "embed_query") EXCEPT
                         !.pc = "s_query",
                         !.request = DenseRequest(Embed(tasks[t].search.query),
                                                  tasks[t].search.limit,
                                                  tasks[t].search.query_filter)]]
    /\ UNCHANGED <<bm25, ret, conn, qdrant>>

\* search: await query_points, then the Entry list
SearchQuery(t) ==
    /\ tasks[t].pc = "s_query"
    /\ \E ok \in BOOLEAN :
          /\ ok => tasks[t].search.coll \in DOMAIN qdrant
          /\ tasks' = [tasks EXCEPT ![t] =
                IF ~ok THEN Raise(@, "query_points")
                ELSE LET pts == qdrant[tasks[t].search.coll]
                     IN Finish(Called(@, "query_points"), "returned",
                               ToEntries(pts, QueryPoints(pts, tasks[t].request)), "")]
    /\ UNCHANGED <<bm25, ret, conn, qdrant>>

\* ---- find_hybrid ---------------------------------------------------------

BeginFindHybrid(t) ==
    /\ CanBegin(t)
    /\ \E args \in HybridRequests, collection_name \in CollectionNames \cup {None} :
          LET task == [IdleTask EXCEPT !.op = "find_hybrid", !.query = args.query,
                                       !.fusion_method = args.fusion_method,
                                       !.dense_limit = args.dense_limit,
                                       !.sparse_limit = args.sparse_limit,
                                       !.final_limit = args.final_limit,
                                       !.query_filter = args.query_filter,
                                       !.coll = Resolve(collection_name)]
          IN tasks' = [tasks EXCEPT ![t] =
                \* if collection_name is None: return []
                IF task.coll = None
                THEN Finish(task, "returned", <<>>, "")
                ELSE [task EXCEPT !.pc = "h_exists"]]
    /\ UNCHANGED <<bm25, ret, conn, qdrant>>

\* The check without "if not collection_exists: return []".
HybridExistsNoReturn(t) ==
    /\ tasks[t].pc = "h_exists"
    /\ \E ok \in BOOLEAN :
          tasks' = [tasks EXCEPT ![t] =
                IF ~ok THEN Raise(@, "collection_exists")
                ELSE [Called(@, "collection_exists") EXCEPT !.pc = "h_embed"]]
    /\ UNCHANGED <<bm25, ret, conn, qdrant>>

\* find_hybrid: await collection_exists, outside the try statement
HybridExists(t) ==
    /\ tasks[t].pc = "h_exists"
    /\ \E ok \in BOOLEAN :
          tasks' = [tasks EXCEPT ![t] =
                IF ~ok THEN Raise(@, "collection_exists")
                ELSE IF tasks[t].coll \in DOMAIN qdrant
                     THEN [Called(@, "collection_exists") EXCEPT !.pc = "h_embed"]
                     ELSE Finish(Called(@, "collection_exists"), "returned", <<>>, "")]
    /\ UNCHANGED <<bm25, ret, conn, qdrant>>

\* str.lower() on a string.
LowerStr(str) == [i \in 1..Len(str) |-> Lower(str[i])]

\* The selection without .lower(): an exact, case-sensitive comparison.
FusionTypeExact(fusion_method) ==
    IF fusion_method = <<"r", "r", "f">> THEN "RRF" ELSE "DBSF"

\* models.Fusion.RRF if fusion_method.lower() == "rrf" else models.Fusion.DBSF
FusionType(fusion_method) ==
    IF LowerStr(fusion_method) = <<"r", "r", "f">> THEN "RRF" ELSE "DBSF"

\* The prefetch list with the sparse request added whatever transform
\* returned.
PrefetchesAlwaysSparse(query_vector, sparse_ids, dense_limit, sparse_limit) ==
    <<[query |-> query_vector, using |-> VectorName, limit |-> dense_limit],
      [query |-> sparse_ids, using |-> "sparse", limit |-> sparse_limit]>>

\* The prefetch list: the dense request and, when transform returned a
\* non-empty vector, the sparse request.
Prefetches(query_vector, sparse_ids, dense_limit, sparse_limit) ==
    <<[query |-> query_vector, using |-> VectorName, limit |-> dense_limit]>>
    \o (IF sparse_ids # <<>>
        THEN <<[query |-> sparse_ids, using |-> "sparse", limit |-> sparse_limit]>>
        ELSE <<>>)

\* The fused request of find_hybrid.
FusedRequest(task, sparse_ids) ==
    [prefetch |-> Prefetches(Embed(task.query), sparse_ids,
                             task.dense_limit, task.sparse_limit),
     query |-> <<>>, using |-> "",
     fusion |-> FusionType(task.fusion_method),
     limit |-> task.final_limit,
     query_filter |-> task.query_filter]

\* The except clause calling search with limit=dense_limit.
FallbackSearchDenseLimit(task) ==
    [query |-> task.query, coll |-> Resolve(task.coll),
     limit |-> task.dense_limit, query_filter |-> task.query_filter]

\* The search() call of the except clause:
\* search(query, collection_name=collection_name, limit=final_limit,
\*        query_filter=query_filter)
FallbackSearch(task) ==
    [query |-> task.query, coll |-> Resolve(task.coll),
     limit |-> task.final_limit, query_filter |-> task.query_filter]

\* An except clause that logs the exception of fn and raises it again.
FallbackRaises(task, fn) == Raise(task, fn)

\* The except clause of find_hybrid: the exception of fn is logged and the
\* request goes on as a search() call.
Fallback(task, fn) ==
    [Called(task, fn) EXCEPT !.pc = "s_exists", !.fallback = fn,
                             !.search = FallbackSearch(task)]

\* find_hybrid: await embed_query inside the try statement, then transform
\* and the fused request.  (transform cannot raise: the inner except clause
\* is never entered.)
HybridEmbed(t) ==
    /\ tasks[t].pc = "h_embed"
    /\ \E ok \in BOOLEAN :
          LET r == transform(bm25, tasks[t].query)
          IN /\ tasks' = [tasks EXCEPT ![t] =
                    IF ~ok THEN Fallback(@, "embed_query")
                    ELSE [Called(@, "embed_query") EXCEPT
                             !.pc = "h_query",
                             !.request = FusedRequest(tasks[t], r.ids)]]
             /\ bm25' = IF ok THEN r.ix ELSE bm25
    /\ UNCHANGED <<ret, conn, qdrant>>

\* find_hybrid: await query_points with the fused request
HybridQuery(t) ==
    /\ tasks[t].pc = "h_query"
    /\ \E ok \in BOOLEAN :
          /\ ok => tasks[t].coll \in DOMAIN qdrant
          /\ tasks' = [tasks EXCEPT ![t] =
                IF ~ok THEN Fallback(@, "query_points")
                ELSE LET pts == qdrant[tasks[t].coll]
                     IN Finish(Called(@, "query_points"), "returned",
                               ToEntries(pts, QueryPoints(pts, tasks[t].request)), "")]
    /\ UNCHANGED <<bm25, ret, conn, qdrant>>

(***************************************************************************)
(* The indexer driven directly.  ret records the last call: the operation, *)
(* its arguments, whether doc_id was indexed when it was called, the ids   *)
(* and values it returned, and how the call follows the one before it:     *)
(* repeat, the same add_or_update call as the previous one; readd, an      *)
(* add_or_update of the id that the previous call removed.                 *)
(***************************************************************************)

NoCall ==
    [op |-> "none", doc_id |-> "", text |-> <<>>, existed |-> FALSE,
     repeat |-> FALSE, readd |-> FALSE, ids |-> <<>>, values |-> <<>>]

Init ==
    /\ bm25 = NewIndexer
    /\ ret = NoCall
    /\ conn = [_default_collection_name |-> "notes"]
    /\ qdrant = <<>>
    /\ tasks = [t \in Tasks |-> IdleTask]

CallAddOrUpdate ==
    \E doc_id \in DocIds, text \in Texts :
        LET r == add_or_update(bm25, doc_id, text)
        IN /\ bm25' = r.ix
           /\ ret' = [op |-> "add_or_update", doc_id |-> doc_id, text |-> text,
                      existed |-> doc_id \in DOMAIN bm25.docs,
                      repeat |-> /\ ret.op = "add_or_update"
                                 /\ ret.doc_id = doc_id
                                 /\ ret.text = text,
                      readd |-> /\ ret.op = "remove"
                                /\ ret.doc_id = doc_id
                                /\ ret.existed,
                      ids |-> r.ids, values |-> r.values]
           /\ UNCHANGED <<conn, qdrant, tasks>>

CallTransform ==
    \E text \in Texts :
        LET r == transform(bm25, text)
        IN /\ bm25' = r.ix
           /\ ret' = [op |-> "transform", doc_id |-> "", text |-> text,
                      existed |-> FALSE, repeat |-> FALSE, readd |-> FALSE,
                      ids |-> r.ids, values |-> r.values]
           /\ UNCHANGED <<conn, qdrant, tasks>>

CallRemove ==
    \E doc_id \in DocIds :
        /\ bm25' = remove(bm25, doc_id)
        /\ ret' = [op |-> "remove", doc_id |-> doc_id, text |-> <<>>,
                   existed |-> doc_id \in DOMAIN bm25.docs,
                   repeat |-> FALSE, readd |-> FALSE, ids |-> <<>>,
                   values |-> <<>>]
        /\ UNCHANGED <<conn, qdrant, tasks>>

Next == CallAddOrUpdate \/ CallTransform \/ CallRemove

Spec == Init /\ [][Next]_vars

\* ---- the connector, one request at a time --------------------------------

Step(t) ==
    \/ BeginStore(t) \/ StoreEnsureExists(t) \/ StoreCreate(t) \/ StoreEmbed(t)
    \/ UpsertPoint(t)
    \/ BeginUpdate(t) \/ BeginDelete(t) \/ CheckExists(t) \/ UpdateEmbed(t)
    \/ DeletePoint(t)
    \/ BeginSearch(t) \/ SearchExists(t) \/ SearchEmbed(t) \/ SearchQuery(t)
    \/ BeginFindHybrid(t) \/ HybridExists(t) \/ HybridEmbed(t) \/ HybridQuery(t)

\* The connector after construction, with a default collection name or
\* without one, and a store without collections.
ConnInit ==
    /\ bm25 = NewIndexer
    /\ ret = NoCall
    /\ conn \in {[_default_collection_name |-> name] :
                    name \in CollectionNames \cup {None}}
    /\ qdrant = <<>>
    /\ tasks = [t \in Tasks |-> IdleTask]

ConnNext == Step("t1")

ConnSpec == ConnInit /\ [][ConnNext]_vars

\* ---- the connector, two requests in flight --------------------------------

\* The steps of a store or update request.
Writer(t) ==
    \/ BeginStore(t) \/ StoreEnsureExists(t) \/ StoreCreate(t) \/ StoreEmbed(t)
    \/ UpsertPoint(t)
    \/ BeginUpdate(t) \/ CheckExists(t) \/ UpdateEmbed(t)

\* The steps of a find_hybrid request, with the search it falls back to.
Reader(t) ==
    \/ BeginFindHybrid(t) \/ HybridExists(t) \/ HybridEmbed(t) \/ HybridQuery(t)
    \/ SearchExists(t) \/ SearchEmbed(t) \/ SearchQuery(t)

\* Task t1 issues store and update requests while task t2 issues find_hybrid
\* requests on the same connector: the event loop runs one task up to its
\* next await, then any task that is ready.
ConcNext == Writer("t1") \/ Reader("t2")

ConcSpec == Init /\ [][ConcNext]_vars

\* The steps of a store request.
Storer(t) ==
    \/ BeginStore(t) \/ StoreEnsureExists(t) \/ StoreCreate(t) \/ StoreEmbed(t)
    \/ UpsertPoint(t)

\* Task t1 issues store and update requests while task t2 issues store
\* requests: two write requests in flight, on distinct ids.
WriteNext == Writer("t1") \/ Storer("t2")

WriteSpec == Init /\ [][WriteNext]_vars

\* The steps of an update request.
Updater(t) == BeginUpdate(t) \/ CheckExists(t) \/ UpdateEmbed(t) \/ UpsertPoint(t)

\* The steps of a delete request.
Deleter(t) == BeginDelete(t) \/ CheckExists(t) \/ DeletePoint(t)

\* Task t1 issues store and update requests while task t2 issues delete
\* requests, which may name the id of a request of t1.
DeleteRaceNext == Writer("t1") \/ Deleter("t2")

DeleteRaceSpec == Init /\ [][DeleteRaceNext]_vars

\* Task t1 issues store and update requests while task t2 issues update
\* requests, which may name the id of a request of t1.
UpdateRaceNext == Writer("t1") \/ Updater("t2")

UpdateRaceSpec == Init /\ [][UpdateRaceNext]_vars

(***************************************************************************)
(* Reference values the claims compare the index with.                     *)
(***************************************************************************)

\* The terms of all the input texts.
AllTerms == UNION { DOMAIN Counter(_tokenize(text)) : text \in Texts }

\* The statistics of an index.
Stats(ix) == [N |-> ix.N, df |-> ix.df, doc_lens_total |-> ix.doc_lens_total]

RECURSIVE Repeated(_, _)
Repeated(term, n) == IF n = 0 THEN <<>> ELSE <<term>> \o Repeated(term, n - 1)

RECURSIVE TokensOf(_, _)
\* A token list with the term frequencies tf.
TokensOf(tf, terms) ==
    IF terms = <<>> THEN <<>>
    ELSE Repeated(Head(terms), tf[Head(terms)]) \o TokensOf(tf, Tail(terms))

RECURSIVE IndexEachOnce(_, _, _)
\* An index in which each document of records is indexed once, as a new
\* document, starting from ix.
IndexEachOnce(ix, records, ids) ==
    IF ids = <<>> THEN ix
    ELSE IndexEachOnce(
             ApplyDocument(ix, Head(ids),
                           TokensOf(records[Head(ids)].tf,
                                    SeqOf(DOMAIN records[Head(ids)].tf))),
             records, Tail(ids))

\* The index that holds the documents of records other than doc_id, each
\* indexed once, and doc_id indexed once with text.
IndexedOnce(records, doc_id, text) ==
    LET others == MapDel(records, doc_id)
    IN ApplyDocument(IndexEachOnce(NewIndexer, others, SeqOf(DOMAIN others)),
                     doc_id, _tokenize(text))

\* The terms whose ids are in the vector the last call returned.
ScoredTerms(vocab, ids) ==
    {term \in DOMAIN vocab : \E i \in 1..Len(ids) : ids[i] = vocab[term]}

(***************************************************************************)
(* Claims on the indexer (Spec).                                           *)
(***************************************************************************)

\* C1: in every reachable state the document count N equals the number of
\* document ids present in the document-record map.
C1_CountMatchesRecords == bm25.N = Cardinality(DOMAIN bm25.docs)

\* C1 witness: two documents were indexed, one was replaced (also by an empty
\* text) and one was removed.
C1_Witness ==
    /\ ret.op = "remove" /\ ret.existed
    /\ bm25.N = 1
    /\ \E d \in DOMAIN bm25.docs : bm25.docs[d].len = 0

\* C2: add_or_update of an id that is already indexed leaves N, df and the
\* total length equal to those of an index in which the other documents and
\* the new text of the id were each indexed once.
C2_ReplaceIsFullReindex ==
    [][(ret'.op = "add_or_update" /\ ret'.existed)
         => Stats(bm25') = Stats(IndexedOnce(bm25.docs, ret'.doc_id, ret'.text))]_vars

\* C2 witness: document "a" was replaced by "b-B c" beside a document "A b":
\* a is counted once, b twice, and c, which found the vocabulary full, once.
C2_Witness ==
    /\ ret.op = "add_or_update" /\ ret.existed /\ ~ret.repeat
    /\ ret.text = <<"b", "-", "B", " ", "c">>
    /\ bm25.N = 2
    /\ bm25.doc_lens_total = 5
    /\ DOMAIN bm25.df = {"a", "b", "c"}
    /\ bm25.df["a"] = 1 /\ bm25.df["b"] = 2
    /\ ret.ids = <<1>>

\* C3: the same add_or_update call made a second time in a row leaves N, df
\* and the total length as the first call left them.
C3_SameIdReplaceIdempotent ==
    [][(ret'.op = "add_or_update" /\ ret'.repeat) => Stats(bm25') = Stats(bm25)]_vars

\* C3 witness: the same non-empty document was indexed twice in a row beside
\* another document.
C3_Witness ==
    /\ ret.op = "add_or_update" /\ ret.repeat
    /\ _tokenize(ret.text) # <<>>
    /\ bm25.N = 2

\* C4: remove(d) followed by add_or_update(d, t) gives N, df and total length
\* of an index in which the remaining documents and (d, t) were each indexed
\* once.
C4_NoResidualLeakage ==
    [][(ret'.op = "add_or_update" /\ ret'.readd /\ ret.op = "remove")
         => Stats(bm25') = Stats(IndexedOnce(bm25.docs, ret'.doc_id, ret'.text))]_vars

\* C4 witness: an indexed document was removed and its id indexed again,
\* beside another document.
C4_Witness ==
    /\ ret.op = "add_or_update" /\ ret.readd
    /\ bm25.N = 2
    /\ ret.ids # <<>>

\* C5: a transform call leaves vocabulary, df, N, total length and document
\* records as they were.
C5_TransformReadOnly ==
    [][ret'.op = "transform" => bm25' = bm25]_vars

\* C5 witness: transform was called on a non-empty index with a text that
\* holds a term the vocabulary does not know, while the vocabulary has room.
C5_Witness ==
    /\ ret.op = "transform"
    /\ bm25.N > 0
    /\ ~AtCapacity(bm25.vocab)
    /\ \E term \in DOMAIN Counter(_tokenize(ret.text)) : term \notin DOMAIN bm25.vocab

\* C9: the vocabulary never holds more than max_vocab terms; at capacity
\* _ensure_term returns no id for an unseen term and the id of a known term,
\* and leaves the vocabulary unchanged.
C9_VocabularyCap ==
    /\ Cardinality(DOMAIN bm25.vocab) <= max_vocab
    /\ AtCapacity(bm25.vocab) =>
         \A term \in AllTerms :
            LET r == _ensure_term(bm25.vocab, term)
            IN /\ r.vocab = bm25.vocab
               /\ r.idx = IF term \in DOMAIN bm25.vocab THEN bm25.vocab[term] ELSE -1

\* C9 witness: the vocabulary is full and the last add_or_update met a term
\* that got no id.
C9_Witness ==
    /\ Cardinality(DOMAIN bm25.vocab) = max_vocab
    /\ ret.op = "add_or_update"
    /\ \E term \in DOMAIN Counter(_tokenize(ret.text)) : term \notin DOMAIN bm25.vocab

\* C10: a vocabulary at capacity stays as it is, so a term that is unknown
\* while the vocabulary is at capacity is unknown after every later call and
\* is not scored in the vector the call returns (also after removals), and an
\* add_or_update that meets such a term still counts the document, its terms
\* and its length.
C10_LateTermsUnscored ==
    [][\A term \in AllTerms :
          (AtCapacity(bm25.vocab) /\ term \notin DOMAIN bm25.vocab) =>
             /\ bm25'.vocab = bm25.vocab
             /\ term \notin DOMAIN bm25'.vocab
             /\ ScoredTerms(bm25'.vocab, ret'.ids) \subseteq DOMAIN bm25.vocab
             /\ Len(ret'.ids) = Cardinality(ScoredTerms(bm25'.vocab, ret'.ids))
             /\ (ret'.op = "add_or_update" /\ ret' # ret
                   /\ term \in DOMAIN Counter(_tokenize(ret'.text))) =>
                  /\ bm25'.N = Cardinality(DOMAIN bm25'.docs)
                  /\ term \in DOMAIN bm25'.df
                  /\ bm25'.docs[ret'.doc_id] =
                        [tf |-> Counter(_tokenize(ret'.text)),
                         len |-> Len(_tokenize(ret'.text))]
                  /\ Stats(bm25') =
                        Stats(IndexedOnce(bm25.docs, ret'.doc_id, ret'.text))]_vars

\* C10 witness: with the vocabulary full, a document with an unknown term was
\* indexed after a removal had taken the df of a known term to zero; the
\* vector returned scores its known term only.
C10_Witness ==
    /\ AtCapacity(bm25.vocab)
    /\ ret.op = "add_or_update" /\ ret.readd
    /\ \E term \in DOMAIN bm25.df : term \notin DOMAIN bm25.vocab
    /\ \E term \in DOMAIN bm25.vocab : term \notin DOMAIN bm25.df
    /\ Len(ret.ids) = 1

\* The new terms of a token list, in the order of their first occurrence.
NewTerms(vocab, tokens) == KeysInOrder(tokens, DOMAIN vocab)

\* C11: term ids are stable and unique.  In every step every term that has
\* an id keeps it; the terms a call adds get the ids |vocab|, |vocab| + 1, ...
\* in the order the call first sees them, so the ids in use are always
\* 0 .. |vocab| - 1 with no id shared; and a term whose df is zero keeps its
\* id, which no other term gets.
C11_TermIdsStable ==
    [][/\ \A term \in DOMAIN bm25.vocab :
             term \in DOMAIN bm25'.vocab /\ bm25'.vocab[term] = bm25.vocab[term]
       /\ LET added == NewTerms(bm25.vocab, _tokenize(ret'.text))
              n == Cardinality(DOMAIN bm25.vocab)
          IN \A term \in DOMAIN bm25'.vocab \ DOMAIN bm25.vocab :
                /\ ret'.op = "add_or_update"
                /\ \E i \in 1..Len(added) :
                      added[i] = term /\ bm25'.vocab[term] = n + i - 1
       /\ {bm25'.vocab[term] : term \in DOMAIN bm25'.vocab}
             = 0..(Cardinality(DOMAIN bm25'.vocab) - 1)]_vars

\* C11 witness: term a got id 0, its only document was removed, and the id
\* was then indexed again with the new term c, which got id 1 while a, with
\* df zero, still has id 0.
C11_Witness ==
    /\ ret.op = "add_or_update" /\ ret.readd
    /\ DOMAIN bm25.vocab = {"a", "c"}
    /\ bm25.vocab["a"] = 0 /\ bm25.vocab["c"] = 1
    /\ "a" \notin DOMAIN bm25.df
    /\ ret.ids = <<1>>

\* The number of indexed documents that contain a term.
DocsWith(docs, term) == Cardinality({d \in DOMAIN docs : term \in DOMAIN docs[d].tf})

\* C12: every entry of the df map is at least 1, and a term has an entry
\* exactly when some indexed document contains it: df equals the number of
\* documents with the term, and absence from the map means df = 0.
C12_DfEntriesPositive ==
    /\ \A term \in DOMAIN bm25.df : bm25.df[term] >= 1
    /\ \A term \in AllTerms \cup DOMAIN bm25.df :
          /\ DfGet(bm25.df, term) = DocsWith(bm25.docs, term)
          /\ term \in DOMAIN bm25.df <=> DocsWith(bm25.docs, term) > 0

\* C12 witness: the last document with term a was replaced by a text without
\* it, beside another document: a has an id but no df entry.
C12_Witness ==
    /\ ret.op = "add_or_update" /\ ret.existed
    /\ bm25.N = 2
    /\ "a" \in DOMAIN bm25.vocab /\ "a" \notin DOMAIN bm25.df
    /\ DOMAIN bm25.df # {}

\* C13: remove(d) of an indexed id d deletes d's record and leaves the other
\* records as they are, takes one from N (which stays >= 0), takes d's length
\* from the total length and one from the df of every term of d; a term that
\* only d contained has no df entry afterwards.
C13_RemoveReversesDocument ==
    [][(ret'.op = "remove" /\ ret'.existed /\ ret'.doc_id \in DOMAIN bm25.docs) =>
          LET d == ret'.doc_id
              old == bm25.docs[d]
          IN /\ bm25'.docs = MapDel(bm25.docs, d)
             /\ bm25'.N = bm25.N - 1 /\ bm25'.N >= 0
             /\ bm25'.doc_lens_total = bm25.doc_lens_total - old.len
             /\ \A term \in AllTerms \cup DOMAIN bm25.df :
                   /\ DfGet(bm25'.df, term) =
                         DfGet(bm25.df, term) - (IF term \in DOMAIN old.tf THEN 1 ELSE 0)
                   /\ (term \in DOMAIN old.tf /\ DocsWith(bm25'.docs, term) = 0)
                         => term \notin DOMAIN bm25'.df]_vars

\* C13 witness: documents "1" ("A b") and "2" ("b-B c") were indexed and "1"
\* removed: N = 1, and a, the term only "1" had, is not in df.
C13_Witness ==
    /\ ret.op = "remove" /\ ret.existed /\ ret.doc_id = "1"
    /\ bm25.N = 1 /\ DOMAIN bm25.docs = {"2"}
    /\ bm25.doc_lens_total = 3
    /\ DOMAIN bm25.df = {"b", "c"}
    /\ "a" \in DOMAIN bm25.vocab

\* C14: whenever N = 0, transform returns empty ids and values for every
\* text, also when the vocabulary holds the text's terms.
C14_EmptyCorpusEmptyVector ==
    /\ bm25.N = 0 =>
          \A text \in Texts :
              transform(bm25, text).ids = <<>> /\ transform(bm25, text).values = <<>>
    /\ (ret.op = "transform" /\ bm25.N = 0) => (ret.ids = <<>> /\ ret.values = <<>>)

\* C14 witness: every document was removed and transform was then called
\* with a text whose terms have ids.
C14_Witness ==
    /\ ret.op = "transform"
    /\ bm25.N = 0
    /\ _tokenize(ret.text) # <<>>
    /\ \A term \in DOMAIN Counter(_tokenize(ret.text)) : term \in DOMAIN bm25.vocab
    /\ ret.ids = <<>> /\ ret.values = <<>>

(***************************************************************************)
(* Claims on the weights (Spec).  A weight is math.log(idf) * tf with       *)
(* rational idf and tf.                                                    *)
(***************************************************************************)

\* math.log(idf) * tf > 0, for tf >= 0
WeightPositive(w) == RatLess(RatInt(1), w.idf) /\ w.tf.num > 0

\* math.log(idf) * tf >= 0
WeightNonNegative(w) == ~RatLess(w.idf, RatInt(1)) /\ w.tf.num >= 0

\* w > v for two positive weights with the same idf.
WeightGreater(w, v) == w.idf = v.idf /\ WeightPositive(w) /\ RatLess(v.tf, w.tf)

\* freq * (k1 + 1) / (freq + k1 * (1 - b + b * norm)) with k1 = 1.5 and
\* b = 0.75, for a length normalisation norm.
TfFactor(freq, norm) ==
    RatDiv(Rat(5 * freq, 2),
           RatAdd(RatInt(freq),
                  RatMul(Rat(3, 2), RatAdd(Rat(1, 4), RatMul(Rat(3, 4), norm)))))

\* total length / N when N > 0, else 1.0
AverageLength(ix) == IF ix.N > 0 THEN Rat(ix.doc_lens_total, ix.N) ELSE Rat(1, 1)

RECURSIVE SumLens(_, _)
\* The summed length of the documents ids of docs.
SumLens(docs, ids) ==
    IF ids = {} THEN 0
    ELSE LET x == CHOOSE y \in ids : TRUE
         IN docs[x].len + SumLens(docs, ids \ {x})

\* The term that has the id idx.
TermOf(vocab, idx) == CHOOSE term \in DOMAIN vocab : vocab[term] = idx

\* The last call scored a text: it returned a non-empty vector.
Scored == ret.op \in {"add_or_update", "transform"} /\ ret.ids # <<>>

\* The frequency in the last call's text of the i-th term it scored, and the
\* length of that text.
FreqOfScored(i) == Counter(_tokenize(ret.text))[TermOf(bm25.vocab, ret.ids[i])]
LenOfScored == Len(_tokenize(ret.text))

\* The corpus is exactly one document "alpha beta beta" (a for alpha, b for
\* beta), and the vocabulary had room for both of its terms.
OnlyAlphaBetaBeta ==
    /\ bm25.N = 1
    /\ {"a", "b"} \subseteq DOMAIN bm25.vocab
    /\ \E d \in DocIds :
          /\ DOMAIN bm25.docs = {d}
          /\ bm25.docs[d] = [tf |-> Counter(<<"a", "b", "b">>), len |-> 3]

\* C16 as stated: with the one document "alpha beta beta", transform("beta")
\* returns a one-term vector whose weight is positive and larger than the
\* weight transform("alpha") returns.
C16_BetaQueryOutweighsAlpha ==
    OnlyAlphaBetaBeta =>
        LET alpha == transform(bm25, <<"a">>)
            beta == transform(bm25, <<"b">>)
        IN /\ Len(beta.values) = 1 /\ Len(alpha.values) = 1
           /\ WeightPositive(beta.values[1])
           /\ WeightGreater(beta.values[1], alpha.values[1])

\* C16 amended: with the one document "alpha beta beta", transform("beta")
\* and transform("alpha") each return a one-term vector with a positive
\* weight, and the two weights are equal: transform scores the query's own
\* term frequency (1 for both) with N = 1 and df = 1.  It is the vector that
\* add_or_update returned for the document in which beta outweighs alpha.
C16_QueryWeightsEqual ==
    OnlyAlphaBetaBeta =>
        LET alpha == transform(bm25, <<"a">>)
            beta == transform(bm25, <<"b">>)
        IN /\ Len(beta.values) = 1 /\ Len(alpha.values) = 1
           /\ beta.ids # alpha.ids
           /\ WeightPositive(beta.values[1]) /\ WeightPositive(alpha.values[1])
           /\ beta.values[1] = alpha.values[1]
           /\ beta.values[1] = [idf |-> Rat(4, 3), tf |-> Rat(10, 7)]
           /\ (ret.op = "add_or_update" /\ Len(ret.values) = 2) =>
                 WeightGreater(ret.values[2], ret.values[1])

\* C16 witness: "alpha beta beta" was indexed as the first and only document
\* and add_or_update returned a weight for each of its two terms.
C16_Witness ==
    /\ OnlyAlphaBetaBeta
    /\ ret.op = "add_or_update" /\ ~ret.existed
    /\ ret.ids = <<0, 1>> /\ Len(ret.values) = 2

\* C17: the weights add_or_update(d, text) returns are those of the state
\* the call leaves: N counts d, df counts d's terms and the total length is
\* the summed length of the records with d's new length (and without its
\* old one); each weight is the score of its term for these N, df and
\* average length.  For the first document ever indexed every term is scored
\* with N = 1 and df = 1, which makes the idf argument 4/3.
C17_ScoredAfterOwnUpdate ==
    (ret.op = "add_or_update") =>
        /\ ret.doc_id \in DOMAIN bm25.docs
        /\ bm25.N = Cardinality(DOMAIN bm25.docs)
        /\ bm25.docs[ret.doc_id].len = LenOfScored
        /\ bm25.doc_lens_total = SumLens(bm25.docs, DOMAIN bm25.docs)
        /\ Len(ret.values) = Len(ret.ids)
        /\ \A i \in 1..Len(ret.ids) :
              LET term == TermOf(bm25.vocab, ret.ids[i])
                  df == DocsWith(bm25.docs, term)
              IN /\ ret.doc_id \in {d \in DOMAIN bm25.docs : term \in DOMAIN bm25.docs[d].tf}
                 /\ bm25.df[term] = df
                 /\ ret.values[i].idf =
                       RatAdd(Rat(1, 1), Rat(2 * (bm25.N - df) + 1, 2 * df + 1))
                 /\ ret.values[i].tf =
                       TfFactor(FreqOfScored(i),
                                RatDiv(Rat(LenOfScored, 1),
                                       RatMax(Rat(1, 1), AverageLength(bm25))))
                 /\ bm25.N = 1 => ret.values[i].idf = Rat(4, 3)

\* C17 witness: a document was replaced by a longer text beside another
\* document, and add_or_update returned weights.
C17_Witness ==
    /\ ret.op = "add_or_update" /\ ret.existed /\ ~ret.repeat
    /\ bm25.N = 2
    /\ bm25.docs[ret.doc_id].len = 3
    /\ bm25.doc_lens_total = 4
    /\ ret.values # <<>>

\* C18: every weight add_or_update or transform returns is non-negative,
\* also for a term all documents contain: df(term) <= N for every term, so
\* the argument of the idf logarithm is at least 1.
C18_WeightsNonNegative ==
    /\ \A term \in DOMAIN bm25.df : bm25.df[term] <= bm25.N
    /\ \A i \in 1..Len(ret.values) :
          WeightNonNegative(ret.values[i]) /\ ~RatLess(ret.values[i].idf, Rat(1, 1))
    /\ \A text \in Texts :
          \A i \in 1..Len(transform(bm25, text).values) :
              WeightNonNegative(transform(bm25, text).values[i])

\* C18 witness: a term that both of two documents contain was scored.
C18_Witness ==
    /\ Scored
    /\ bm25.N = 2
    /\ \E i \in 1..Len(ret.ids) :
          /\ bm25.df[TermOf(bm25.vocab, ret.ids[i])] = bm25.N
          /\ ret.values[i].idf = Rat(6, 5)

\* C19 as stated: a text of length L is scored with the normalisation
\* L / average length, the average being total length / N when N > 0, in
\* every state where that average is positive, also below 1.
C19_NormalisedByAverage ==
    (Scored /\ AverageLength(bm25).num > 0) =>
        \A i \in 1..Len(ret.values) :
            ret.values[i].tf =
                TfFactor(FreqOfScored(i),
                         RatDiv(Rat(LenOfScored, 1), AverageLength(bm25)))

\* C19 amended: a text of length L is scored with the normalisation
\* L / max(1.0, average length), the average being total length / N when
\* N > 0: the divisor is the average where that is at least 1, and 1.0 where
\* the average is below 1 (empty documents indexed).
C19_NormalisedByFlooredAverage ==
    Scored =>
        \A i \in 1..Len(ret.values) :
            ret.values[i].tf =
                TfFactor(FreqOfScored(i),
                         IF RatLess(AverageLength(bm25), Rat(1, 1))
                         THEN Rat(LenOfScored, 1)
                         ELSE RatDiv(Rat(LenOfScored, 1), AverageLength(bm25)))

\* C19 witness: with an empty document and a one-token document indexed
\* (average length 1/2), a text was scored.
C19_Witness ==
    /\ Scored
    /\ bm25.N = 2 /\ bm25.doc_lens_total = 1
    /\ LenOfScored >= 1

(***************************************************************************)
(* Claims on the connector (ConnSpec).                                     *)
(***************************************************************************)

\* What a search(query, collection_name=coll, limit=limit,
\* query_filter=query_filter) call returns on the store q when its calls
\* succeed.
DirectSearchEntries(q, query, coll, limit, query_filter) ==
    IF coll \notin DOMAIN q THEN <<>>
    ELSE ToEntries(q[coll],
                   QueryPoints(q[coll], DenseRequest(Embed(query), limit, query_filter)))

\* C6 as stated: a find_hybrid request whose fused query raised ends by
\* returning entries, never by raising.
C6_FusedFailureNeverRaises ==
    \A t \in Tasks :
        (tasks[t].op = "find_hybrid" /\ tasks[t].fallback = "query_points"
           /\ tasks[t].pc = "done")
        => tasks[t].result.kind = "returned"

\* C6 amended: when the fused query raises, find_hybrid does not end there
\* but goes on as search(query, collection, limit=final_limit, filter); when
\* that search returns, find_hybrid returns exactly the entries of a direct
\* dense-only search with these arguments, and otherwise it ends with the
\* exception of the search's own call.
C6_FusedFailureFallsBackToSearch ==
    [][\A t \in Tasks :
          LET a == tasks[t]
              b == tasks'[t]
          IN /\ (a.pc = "h_query" /\ b # a) =>
                   \/ b.pc = "done" /\ b.result.kind = "returned" /\ b.fallback = ""
                   \/ /\ b.pc = "s_exists" /\ b.fallback = "query_points"
                      /\ b.result = NoResult
             /\ (a.op = "find_hybrid" /\ a.fallback = "query_points"
                   /\ a.pc # "done" /\ b.pc = "done") =>
                   \/ /\ b.result.kind = "returned"
                      /\ b.result.entries =
                            DirectSearchEntries(qdrant, a.query, a.coll,
                                                a.final_limit, a.query_filter)
                   \/ /\ b.result.kind = "error"
                      /\ b.calls = Append(a.calls, b.result.detail)
                      /\ a.pc \in {"s_exists", "s_embed", "s_query"}]_vars

\* C6 witness: the fused query raised and find_hybrid returned the one entry
\* that its final_limit of 1 allows, from a collection of two points.
C6_Witness ==
    \E t \in Tasks :
        /\ tasks[t].op = "find_hybrid" /\ tasks[t].fallback = "query_points"
        /\ tasks[t].pc = "done" /\ tasks[t].result.kind = "returned"
        /\ tasks[t].final_limit = 1 /\ tasks[t].dense_limit = 2
        /\ Len(tasks[t].result.entries) = 1
        /\ Cardinality(DOMAIN qdrant[tasks[t].coll]) = 2

\* The number of calls of fn a request has made.
CallCount(task, fn) == Cardinality({i \in 1..Len(task.calls) : task.calls[i] = fn})

C34_MissingCollectionReturnsEmpty ==
    [][\A t \in Tasks :
          LET a == tasks[t]
              after == tasks'[t]
          IN /\ (after.op = "find_hybrid" /\ after # a /\ a.pc \in {"idle", "done"}
                   /\ after.coll = None) =>
                   /\ after.pc = "done"
                   /\ after.result = [kind |-> "returned", entries |-> <<>>, detail |-> ""]
                   /\ after.calls = <<>>
                   /\ after.request = NoRequest
                   /\ bm25' = bm25 /\ qdrant' = qdrant
             /\ (a.op = "find_hybrid" /\ a.pc = "h_exists" /\ after # a
                   /\ a.coll \notin DOMAIN qdrant /\ after.result.kind # "error") =>
                   /\ after.pc = "done"
                   /\ after.result = [kind |-> "returned", entries |-> <<>>, detail |-> ""]
                   /\ after.calls = <<"collection_exists">>
                   /\ after.request = NoRequest
                   /\ bm25' = bm25 /\ qdrant' = qdrant
             /\ (a.op = "find_hybrid" /\ after # a /\ a.pc # "done") =>
                   DOMAIN qdrant' = DOMAIN qdrant]_vars

\* C34 witness: a find_hybrid request on the collection "notes", which the
\* store does not have, returned the empty list after its one
\* collection_exists call.
C34_Witness ==
    \E t \in Tasks :
        /\ tasks[t].op = "find_hybrid"
        /\ tasks[t].pc = "done" /\ tasks[t].result.kind = "returned"
        /\ tasks[t].coll = "notes"
        /\ "notes" \notin DOMAIN qdrant
        /\ tasks[t].result.entries = <<>>
        /\ tasks[t].calls = <<"collection_exists">>

\* A find_hybrid request that has built its fused request.
HasFusedRequest(task) == task.op = "find_hybrid" /\ task.request.prefetch # <<>>

VectorOf(ids, values, vocab, text) ==
    LET known == {term \in DOMAIN Counter(_tokenize(text)) : term \in DOMAIN vocab}
    IN /\ Len(ids) = Len(values)
       /\ \A i \in 1..Len(ids) : ids[i] \in Nat
       /\ \A i, j \in 1..Len(ids) : i # j => ids[i] # ids[j]
       /\ {ids[i] : i \in 1..Len(ids)} = {vocab[term] : term \in known}
       /\ Len(ids) = Cardinality(known)

\* C24 as stated: every vector returned by add_or_update or transform has
\* two sequences of equal length, non-negative pairwise distinct ids, and one
\* entry for each distinct token of the text that has a vocabulary id and
\* none for any other term.
C24_VectorForEveryKnownToken ==
    ret.op \in {"add_or_update", "transform"} =>
        VectorOf(ret.ids, ret.values, bm25.vocab, ret.text)

\* C24 amended: the vector returned by add_or_update, and the one returned
\* by transform while a document is indexed, has that shape; transform on
\* an index without documents returns the empty vector, whatever the
\* vocabulary holds.
C24_VectorForEveryKnownTokenUnlessEmpty ==
    /\ (ret.op = "add_or_update" \/ (ret.op = "transform" /\ bm25.N > 0)) =>
           VectorOf(ret.ids, ret.values, bm25.vocab, ret.text)
    /\ (ret.op = "transform" /\ bm25.N = 0) => (ret.ids = <<>> /\ ret.values = <<>>)

\* C24 witness: a transform on a non-empty index of a text with two
\* distinct tokens of which only one has a vocabulary id returned one entry.
C24_Witness ==
    /\ ret.op = "transform"
    /\ bm25.N > 0
    /\ Cardinality(DOMAIN Counter(_tokenize(ret.text))) = 2
    /\ Len(ret.ids) = 1
    /\ Len(ret.values) = 1

\* C25: remove of an id that is not indexed changes nothing in the index,
\* and N is never negative.
C25_RemoveOfUnindexedIsNoOp ==
    [][/\ (ret'.op = "remove" /\ ~ret'.existed /\ ret' # ret) => bm25' = bm25
       /\ bm25'.N \in Nat]_vars

\* C25 witness: a remove of an id that is not indexed was made on an index
\* that holds another document.
C25_Witness ==
    /\ ret.op = "remove"
    /\ ~ret.existed
    /\ bm25.N = 1
    /\ DOMAIN bm25.docs # {}
    /\ ret.doc_id \notin DOMAIN bm25.docs

\* C29: in every state df(term) is the number of document records whose
\* term map holds the term, for terms with and without a vocabulary id, the
\* total length is the sum of the recorded lengths, and with N = 0 df is
\* empty and the total length is 0.
C29_AggregatesExact ==
    /\ \A term \in AllTerms \cup DOMAIN bm25.df :
          DfGet(bm25.df, term) = DocsWith(bm25.docs, term)
    /\ bm25.doc_lens_total = SumLens(bm25.docs, DOMAIN bm25.docs)
    /\ bm25.N = 0 => (bm25.df = <<>> /\ bm25.doc_lens_total = 0)

\* C29 witness: two documents hold a term that has no vocabulary id, and df
\* counts both.
C29_Witness ==
    \E term \in DOMAIN bm25.df :
        /\ term \notin DOMAIN bm25.vocab
        /\ bm25.df[term] = 2
        /\ bm25.N = 2

(***************************************************************************)
(* Claims on concurrent requests (ConcSpec).                               *)
(***************************************************************************)

\* The statistics of an index are those of its document records: no
\* mutation is applied in part.
Committed(ix) ==
    /\ ix.N = Cardinality(DOMAIN ix.docs)
    /\ ix.doc_lens_total = SumLens(ix.docs, DOMAIN ix.docs)
    /\ \A term \in AllTerms \cup DOMAIN ix.df :
          DfGet(ix.df, term) = DocsWith(ix.docs, term)

\* C20: with store and update requests in flight beside find_hybrid
\* requests, the index that a task finds when it runs is always a committed
\* one (N, df and total length are those of the document records), and the
\* transform of find_hybrid reads that one state: the sparse request it
\* builds is the transform of the query on the index of that step, which the
\* step leaves unchanged.
C20_TransformReadsCommittedState ==
    [][/\ Committed(bm25) /\ Committed(bm25')
       /\ \A t \in Tasks :
             LET a == tasks[t]
                 after == tasks'[t]
                 sparse == transform(bm25, a.query)
             IN (a.pc = "h_embed" /\ after # a /\ after.fallback = "") =>
                   /\ bm25' = bm25
                   /\ after.request.prefetch =
                         Prefetches(Embed(a.query), sparse.ids,
                                    a.dense_limit, a.sparse_limit)
                   /\ sparse.ids # <<>> =>
                         after.request.prefetch[2].query = sparse.ids]_vars

\* C20 witness: a find_hybrid built its sparse request from the index while
\* a store request was between its add_or_update and its upsert: the index
\* counts the document, the collection holds no point yet.
C20_Witness ==
    /\ tasks["t1"].op = "store" /\ tasks["t1"].pc = "upsert"
    /\ tasks["t2"].op = "find_hybrid" /\ tasks["t2"].pc = "h_query"
    /\ Len(tasks["t2"].request.prefetch) = 2
    /\ bm25.N = 1
    /\ "notes" \in DOMAIN qdrant /\ DOMAIN qdrant["notes"] = {}

\* A task is in a store or update request between its add_or_update and the
\* return of its upsert.
Mutated(task) == task.op \in {"store", "update"} /\ task.pc = "upsert"

\* C21: with two write requests in flight on distinct ids, the index changes
\* only in the step in which a request runs its add_or_update, and there by
\* that whole mutation at once; so the index is at any time the result of
\* the mutations applied one after another, and once the requests are
\* complete N, df and total length are those of applying the last mutation
\* of each id once, one after another.
C21_WritesApplyAtomically ==
    [][/\ \A t \in Tasks :
             (tasks[t].pc = "embed" /\ tasks'[t].pc = "upsert") =>
                 bm25' = add_or_update(bm25, tasks'[t].point_id,
                                       tasks[t].entry.content).ix
       /\ (\A t \in Tasks : ~(tasks[t].pc = "embed" /\ tasks'[t].pc = "upsert"))
             => bm25' = bm25
       /\ Committed(bm25')
       /\ (\A t \in Tasks : tasks'[t].pc \in {"idle", "done"}) =>
             Stats(bm25') =
                Stats(IndexEachOnce(NewIndexer, bm25'.docs, SeqOf(DOMAIN bm25'.docs)))
       /\ \A t, u \in Tasks :
             (t # u /\ Mutated(tasks'[t]) /\ Mutated(tasks'[u])) =>
                 tasks'[t].point_id # tasks'[u].point_id]_vars

\* C21 witness: an update of p1 and a store of p2 are both between their
\* add_or_update and the return of their upsert.
C21_Witness ==
    /\ tasks["t1"].op = "update" /\ tasks["t1"].pc = "upsert"
    /\ tasks["t1"].point_id = "p1"
    /\ tasks["t2"].op = "store" /\ tasks["t2"].pc = "upsert"
    /\ tasks["t2"].point_id = "p2"
    /\ bm25.N = 2
    /\ bm25.docs["p1"].tf # Counter(_tokenize(qdrant["notes"]["p1"].payload.document))

(***************************************************************************)
(* Claims on the connector (ConnSpec), continued.                          *)
(***************************************************************************)

\* C22: the point a store or update request builds, and then writes, has the
\* payload {document, metadata} of its entry, the dense vector under the
\* provider's vector name and the "sparse" entry exactly when add_or_update
\* returned a non-empty vector for the content, which is then that vector;
\* no stored point has an empty "sparse" entry.
C22_PointShape ==
    [][/\ \A t \in Tasks :
             LET a == tasks[t]
                 after == tasks'[t]
                 r == add_or_update(bm25, after.point_id, a.entry.content)
             IN /\ (a.pc = "embed" /\ after.pc = "upsert") =>
                      /\ after.point.id = after.point_id
                      /\ after.point.payload =
                            [document |-> a.entry.content, metadata |-> a.entry.metadata]
                      /\ after.point.vector[VectorName] = Embed(a.entry.content)
                      /\ "sparse" \in DOMAIN after.point.vector <=> r.ids # <<>>
                      /\ r.ids # <<>> =>
                            after.point.vector["sparse"] =
                               [ids |-> r.ids, values |-> r.values]
                      /\ DOMAIN after.point.vector \subseteq {VectorName, "sparse"}
                /\ (a.pc = "upsert" /\ after.result.kind = "returned") =>
                      qdrant' = [qdrant EXCEPT ![a.coll] = MapSet(@, a.point_id, a.point)]
       /\ \A coll \in DOMAIN qdrant' : \A x \in DOMAIN qdrant'[coll] :
             "sparse" \in DOMAIN qdrant'[coll][x].vector =>
                 qdrant'[coll][x].vector["sparse"].ids # <<>>]_vars

\* C22 witness: the collection holds a point with a sparse vector and a
\* point whose content "-c" got no scored term (the vocabulary was full) and
\* which has no "sparse" entry.
C22_Witness ==
    /\ "notes" \in DOMAIN qdrant
    /\ DOMAIN qdrant["notes"] = {"p1", "p2"}
    /\ DOMAIN qdrant["notes"]["p1"].vector = {VectorName, "sparse"}
    /\ DOMAIN qdrant["notes"]["p2"].vector = {VectorName}
    /\ qdrant["notes"]["p2"].payload.document = <<"-", "c">>

\* The collection an update or delete request is to work on.
TargetCollection(task) ==
    IF task.collection_name # None THEN task.collection_name
    ELSE conn._default_collection_name

\* C23: an update of an id the store reports as existing makes one retrieve
\* call and then one upsert call (with the embedding call between them),
\* which writes the point with the given id to the collection passed, or to
\* the default collection when none is passed; a delete of an existing id
\* makes one retrieve call and then one delete call, on that collection.
C23_OneCheckOneWrite ==
    [][\A t \in Tasks :
          LET a == tasks[t]
              after == tasks'[t]
          IN /\ (after.op \in {"update", "delete"} /\ after # a) =>
                   after.coll = TargetCollection(after)
             /\ (a.op = "update" /\ a.pc = "upsert" /\ after.result.kind = "returned") =>
                   /\ after.calls = <<"retrieve", "embed_documents", "upsert">>
                   /\ a.point.id = a.point_id
                   /\ qdrant' = Upsert(qdrant, TargetCollection(a), a.point)
             /\ (a.op = "delete" /\ a.pc = "delete" /\ after.result.kind = "returned") =>
                   /\ after.calls = <<"retrieve", "delete">>
                   /\ qdrant' = Delete(qdrant, TargetCollection(a), a.point_id)
             /\ (a.op \in {"update", "delete"} /\ a.pc = "retrieve" /\ after # a
                   /\ after.result.kind \notin {"error", "ValueError"}) =>
                   /\ a.point_id \in DOMAIN qdrant[a.coll]
                   /\ after.calls = <<"retrieve">>
                   /\ after.pc = IF a.op = "update" THEN "embed" ELSE "delete"]_vars

\* C23 witness: an update called without a collection name returned after it
\* wrote the point of the given id to the default collection.
C23_Witness ==
    \E t \in Tasks :
        /\ tasks[t].op = "update"
        /\ tasks[t].pc = "done" /\ tasks[t].result.kind = "returned"
        /\ tasks[t].collection_name = None
        /\ tasks[t].coll = "notes"
        /\ conn._default_collection_name = "notes"
        /\ qdrant["notes"][tasks[t].point_id] = tasks[t].point
        /\ tasks[t].calls = <<"retrieve", "embed_documents", "upsert">>

\* The points of a collection, none when the collection does not exist.
PointsOf(q, coll) == IF coll \in DOMAIN q THEN q[coll] ELSE <<>>

\* The request of a task has finished without a failure of an awaited call:
\* it returned, or it raised the not-found ValueError.
Finished(task) ==
    task.pc = "done" /\ task.result.kind \in {"returned", "ValueError"}

\* C31: once an update and a delete of the same id have both finished, the
\* delete having succeeded, the outcome is that of one of the two serial
\* orders: the update failed with not-found, or the point is absent from the
\* store.
C31_UpdateNeverRecreates ==
    \A t, u \in Tasks :
        (/\ tasks[t].op = "update" /\ Finished(tasks[t])
         /\ tasks[u].op = "delete" /\ tasks[u].result.kind = "returned"
         /\ tasks[u].pc = "done"
         /\ tasks[t].point_id = tasks[u].point_id
         /\ tasks[t].coll = tasks[u].coll) =>
            \/ tasks[t].result.kind = "ValueError"
            \/ tasks[t].point_id \notin DOMAIN PointsOf(qdrant, tasks[t].coll)

\* C32: once two updates of the same id with different texts have both
\* returned, the document the index records for the id is the document the
\* store holds for it, and N and df are those of the document records.
C32_SameIdUpdatesSerialized ==
    \A t, u \in Tasks :
        (/\ t # u
         /\ tasks[t].op = "update" /\ tasks[u].op = "update"
         /\ tasks[t].pc = "done" /\ tasks[t].result.kind = "returned"
         /\ tasks[u].pc = "done" /\ tasks[u].result.kind = "returned"
         /\ tasks[t].point_id = tasks[u].point_id
         /\ tasks[t].coll = tasks[u].coll
         /\ tasks[t].entry.content # tasks[u].entry.content) =>
            /\ tasks[t].point_id \in DOMAIN bm25.docs
            /\ tasks[t].point_id \in DOMAIN PointsOf(qdrant, tasks[t].coll)
            /\ bm25.docs[tasks[t].point_id].tf =
                  Counter(_tokenize(qdrant[tasks[t].coll][tasks[t].point_id]
                                       .payload.document))
            /\ bm25.N = Cardinality(DOMAIN bm25.docs)
            /\ \A term \in AllTerms \cup DOMAIN bm25.df :
                  DfGet(bm25.df, term) = DocsWith(bm25.docs, term)

\* The sparse weights the index gives a document now.
ScoresNow(document) ==
    LET tokens == _tokenize(document)
    IN ScoredValues(bm25, Counter(tokens), KeysInOrder(tokens, {}), Len(tokens))

\* C26: a step of a store, update or delete request changes in the store
\* only the point of the request's id: every other point, with the sparse
\* vector it was stored with, is the same before and after, whatever the
\* step did to N, df and the average length.
C26_OtherPointsLeftAsEmitted ==
    [][\A coll \in DOMAIN qdrant \cup DOMAIN qdrant' : \A x \in SeqRange(PointIds) :
          (\A t \in Tasks : ~(/\ tasks[t].pc \in {"upsert", "delete"}
                               /\ tasks'[t].pc = "done"
                               /\ tasks[t].coll = coll
                               /\ tasks[t].point_id = x)) =>
              /\ x \in DOMAIN PointsOf(qdrant', coll) <=> x \in DOMAIN PointsOf(qdrant, coll)
              /\ x \in DOMAIN PointsOf(qdrant, coll) =>
                    PointsOf(qdrant', coll)[x] = PointsOf(qdrant, coll)[x]]_vars

\* C26 witness: after a write of another id completed, a stored point
\* whose document the index holds unchanged carries sparse weights that
\* differ from the scores the index gives that document now.
C26_Witness ==
    \E t \in Tasks : \E x \in DOMAIN PointsOf(qdrant, "notes") :
        /\ tasks[t].op \in {"store", "update"}
        /\ tasks[t].pc = "done" /\ tasks[t].result.kind = "returned"
        /\ tasks[t].point_id # x
        /\ tasks[t].point_id \in DOMAIN qdrant["notes"]
        /\ "sparse" \in DOMAIN qdrant["notes"][x].vector
        /\ x \in DOMAIN bm25.docs
        /\ bm25.docs[x].tf = Counter(_tokenize(qdrant["notes"][x].payload.document))
        /\ qdrant["notes"][x].vector["sparse"].values
              # ScoresNow(qdrant["notes"][x].payload.document)

\* C27: a store that completes has created the collection if it was
\* missing and written there a point with the entry's content and metadata
\* under a non-empty id; a dense search that returns with a limit of at
\* least the number of points of the collection returns, for every point
\* its filter lets through, the entry with the point's content, metadata
\* and id.
C27_StoredEntryIsFound ==
    [][\A t \in Tasks :
          LET a == tasks[t]
              after == tasks'[t]
          IN /\ (a.op = "store" /\ a.pc = "upsert" /\ after.result.kind = "returned") =>
                   /\ a.coll \in DOMAIN qdrant'
                   /\ a.point_id # ""
                   /\ a.point_id \in DOMAIN qdrant'[a.coll]
                   /\ qdrant'[a.coll][a.point_id].payload =
                         [document |-> a.entry.content, metadata |-> a.entry.metadata]
             /\ (a.pc = "s_query" /\ after.result.kind = "returned"
                   /\ a.search.limit >= Cardinality(DOMAIN qdrant[a.search.coll])) =>
                   \A x \in DOMAIN qdrant[a.search.coll] :
                       MatchesFilter(qdrant[a.search.coll][x], a.search.query_filter) =>
                           /\ x # ""
                           /\ \E i \in 1..Len(after.result.entries) :
                                 after.result.entries[i] =
                                    [content |-> qdrant[a.search.coll][x].payload.document,
                                     metadata |-> qdrant[a.search.coll][x].payload.metadata,
                                     id |-> x]]_vars

\* C27 witness: a search without filter and with limit 2 returned, from a
\* collection of two points, the entry stored with content "A b" and
\* metadata "m".
C27_Witness ==
    \E t \in Tasks :
        /\ tasks[t].op = "search"
        /\ tasks[t].pc = "done" /\ tasks[t].result.kind = "returned"
        /\ tasks[t].search.limit = 2
        /\ tasks[t].search.query_filter = None
        /\ Cardinality(DOMAIN PointsOf(qdrant, "notes")) = 2
        /\ \E i \in 1..Len(tasks[t].result.entries) : \E x \in {"p1", "p2"} :
              tasks[t].result.entries[i] =
                 [content |-> <<"A", " ", "b">>, metadata |-> "m", id |-> x]

\* The document records of an index that holds exactly the stored points.
StoredDocs(pts) ==
    [x \in DOMAIN pts |->
        [tf |-> Counter(_tokenize(pts[x].payload.document)),
         len |-> Len(_tokenize(pts[x].payload.document))]]

\* C28: after a delete request succeeded, the index holds no document
\* record for the deleted id, and N, df and the total length are those of
\* an index of the entries still stored.
C28_IndexFollowsDeletions ==
    \A t \in Tasks :
        (tasks[t].op = "delete" /\ tasks[t].pc = "done"
           /\ tasks[t].result.kind = "returned") =>
            LET stored == StoredDocs(qdrant[tasks[t].coll])
            IN /\ tasks[t].point_id \notin DOMAIN bm25.docs
               /\ bm25.N = Cardinality(DOMAIN stored)
               /\ bm25.doc_lens_total = SumLens(stored, DOMAIN stored)
               /\ \A term \in AllTerms \cup DOMAIN bm25.df :
                     DfGet(bm25.df, term) = DocsWith(stored, term)

\* C30: after a store or update request failed in its embedding call or in
\* its upsert call, the index counts for the request's id no document and no
\* document version that is not in the store: either the index has no record
\* of the id, or the store holds the point and the record is that of the
\* stored document.
C30_FailedWriteLeavesIndex ==
    \A t \in Tasks :
        (/\ tasks[t].op \in {"store", "update"}
         /\ tasks[t].pc = "done"
         /\ tasks[t].result.kind = "error"
         /\ tasks[t].result.detail \in {"embed_documents", "upsert"}) =>
            \/ tasks[t].point_id \notin DOMAIN bm25.docs
            \/ /\ tasks[t].point_id \in DOMAIN PointsOf(qdrant, tasks[t].coll)
               /\ bm25.docs[tasks[t].point_id].tf =
                     Counter(_tokenize(qdrant[tasks[t].coll][tasks[t].point_id]
                                          .payload.document))

\* C8: when the existence check of update or delete returns no point, the
\* request ends there with the not-found ValueError: its only call is the
\* retrieve, and the step leaves the BM25 index and the store unchanged.
C8_UnknownIdNotFound ==
    [][\A t \in Tasks :
          LET a == tasks[t]
              b == tasks'[t]
          IN /\ (a.pc = "retrieve" /\ b # a /\ b.result.kind # "error"
                   /\ a.coll \in DOMAIN qdrant
                   /\ a.point_id \notin DOMAIN qdrant[a.coll]) =>
                   /\ b.pc = "done"
                   /\ b.result.kind = "ValueError"
                   /\ b.calls = <<"retrieve">>
                   /\ bm25' = bm25
                   /\ qdrant' = qdrant
             /\ (a.pc = "done" /\ a.result.kind = "ValueError") =>
                   /\ a.op \in {"update", "delete"}
                   /\ a.calls = <<"retrieve">>]_vars

\* C8 witness: an update of an id the collection does not hold ended with the
\* ValueError while the collection holds another point and the index a
\* document.
C8_Witness ==
    \E t \in Tasks :
        /\ tasks[t].op = "update"
        /\ tasks[t].pc = "done" /\ tasks[t].result.kind = "ValueError"
        /\ tasks[t].coll \in DOMAIN qdrant
        /\ DOMAIN qdrant[tasks[t].coll] = {"p1"}
        /\ tasks[t].point_id = "p2"
        /\ bm25.N = 1

=============================================================================
